---- MODULE Spec2Model ----
(***************************************************************************)
(* Booking core of the facilities agent: the per-session booking context   *)
(* store (app/tools/booking_context.py), the booking executor              *)
(* (execute_booking_from_context, book_appointment) and the availability   *)
(* resolver (DataService.find_available_technicians).                      *)
(*                                                                         *)
(* Strings are TLA+ strings (sequences of characters); a date is the       *)
(* number of days since 1970-01-01 and an instant the number of seconds    *)
(* since 1970-01-01T00:00, both computed with the proleptic Gregorian      *)
(* calendar as Python's datetime does.                                     *)
(***************************************************************************)
EXTENDS Integers, Sequences, FiniteSets, TLC

(***************************************************************************)
(* Python str operations                                                   *)
(***************************************************************************)
UpperLetters == "ABCDEFGHIJKLMNOPQRSTUVWXYZ"
LowerLetters == "abcdefghijklmnopqrstuvwxyz"
Digits == "0123456789"

CharAt(s, i) == SubSeq(s, i, i)

\* needle in hay
Contains(hay, needle) ==
    \E i \in 1..(Len(hay) - Len(needle) + 1) :
        SubSeq(hay, i, i + Len(needle) - 1) = needle

LowerChar(c) ==
    IF Contains(UpperLetters, c)
    THEN CharAt(LowerLetters,
                CHOOSE i \in 1..Len(UpperLetters) : CharAt(UpperLetters, i) = c)
    ELSE c

\* s.lower()
RECURSIVE Lower(_)
Lower(s) ==
    IF Len(s) = 0 THEN ""
    ELSE LowerChar(CharAt(s, 1)) \o Lower(SubSeq(s, 2, Len(s)))

(***************************************************************************)
(* datetime: dates, instants, calendar fields                              *)
(***************************************************************************)
SecondsPerDay == 86400

\* days of month m in year y
DaysInMonth(y, m) ==
    IF m = 2
    THEN (IF (y % 4 = 0 /\ y % 100 # 0) \/ y % 400 = 0 THEN 29 ELSE 28)
    ELSE (IF m \in {4, 6, 9, 11} THEN 30 ELSE 31)

\* date(y, m, d) as days since 1970-01-01
DaysFromCivil(y, m, d) ==
    LET yy  == IF m <= 2 THEN y - 1 ELSE y
        era == yy \div 400
        yoe == yy - era * 400
        mp  == IF m > 2 THEN m - 3 ELSE m + 9
        doy == (153 * mp + 2) \div 5 + d - 1
        doe == yoe * 365 + yoe \div 4 - yoe \div 100 + doy
    IN  era * 146097 + doe - 719468

\* date.year, date.month, date.day
CivilFromDays(days) ==
    LET z   == days + 719468
        era == z \div 146097
        doe == z - era * 146097
        yoe == (doe - doe \div 1460 + doe \div 36524 - doe \div 146096) \div 365
        doy == doe - (365 * yoe + yoe \div 4 - yoe \div 100)
        mp  == (5 * doy + 2) \div 153
        m   == IF mp < 10 THEN mp + 3 ELSE mp - 9
    IN  [year  |-> yoe + era * 400 + (IF m <= 2 THEN 1 ELSE 0),
         month |-> m,
         day   |-> doy - (153 * mp + 2) \div 5 + 1]

\* datetime as seconds since 1970-01-01T00:00:00
Instant(date, seconds) == date * SecondsPerDay + seconds
DateOf(instant) == instant \div SecondsPerDay
TimeOf(instant) == instant % SecondsPerDay
YearOf(instant) == CivilFromDays(DateOf(instant)).year
HMS(h, m, sec) == h * 3600 + m * 60 + sec

\* timedelta(minutes = n) in seconds
Minutes(n) == n * 60

(***************************************************************************)
(* Parsing and printing of date-time text.  A parse result is              *)
(* [ok, value]; ok = FALSE stands for the ValueError Python raises.        *)
(* The grammar is that of canonical, zero-padded text; time-zone offsets   *)
(* and fractions of a second are not part of it.                           *)
(***************************************************************************)
ParseError == [ok |-> FALSE, value |-> 0]
Parsed(v) == [ok |-> TRUE, value |-> v]

IsDigit(c) == Len(c) = 1 /\ Contains(Digits, c)
AllDigits(s) == Len(s) > 0 /\ \A i \in 1..Len(s) : IsDigit(CharAt(s, i))
DigitVal(c) == (CHOOSE i \in 1..Len(Digits) : CharAt(Digits, i) = c) - 1

RECURSIVE ParseInt(_)
ParseInt(s) ==
    IF Len(s) = 0 THEN 0
    ELSE ParseInt(SubSeq(s, 1, Len(s) - 1)) * 10 + DigitVal(CharAt(s, Len(s)))

Pad2(n) == CharAt(Digits, ((n \div 10) % 10) + 1) \o CharAt(Digits, (n % 10) + 1)
Pad4(n) == Pad2(n \div 100) \o Pad2(n % 100)

\* "YYYY-MM-DD" -> date
ParseDate(s) ==
    IF /\ Len(s) = 10
       /\ AllDigits(SubSeq(s, 1, 4)) /\ CharAt(s, 5) = "-"
       /\ AllDigits(SubSeq(s, 6, 7)) /\ CharAt(s, 8) = "-"
       /\ AllDigits(SubSeq(s, 9, 10))
    THEN LET y == ParseInt(SubSeq(s, 1, 4))
             m == ParseInt(SubSeq(s, 6, 7))
             d == ParseInt(SubSeq(s, 9, 10))
         IN  IF y >= 1 /\ m \in 1..12 /\ d >= 1 /\ d <= DaysInMonth(y, m)
             THEN Parsed(DaysFromCivil(y, m, d))
             ELSE ParseError
    ELSE ParseError

\* "HH:MM:SS" -> seconds of the day
ParseHMS(s) ==
    IF /\ Len(s) = 8
       /\ AllDigits(SubSeq(s, 1, 2)) /\ CharAt(s, 3) = ":"
       /\ AllDigits(SubSeq(s, 4, 5)) /\ CharAt(s, 6) = ":"
       /\ AllDigits(SubSeq(s, 7, 8))
    THEN LET h == ParseInt(SubSeq(s, 1, 2))
             m == ParseInt(SubSeq(s, 4, 5))
             x == ParseInt(SubSeq(s, 7, 8))
         IN  IF h < 24 /\ m < 60 /\ x < 60 THEN Parsed(HMS(h, m, x)) ELSE ParseError
    ELSE ParseError

\* "HH", "HH:MM" or "HH:MM:SS" -> seconds of the day
ParseIsoTime(s) ==
    CASE Len(s) = 2 -> ParseHMS(s \o ":00:00")
      [] Len(s) = 5 -> ParseHMS(s \o ":00")
      [] OTHER      -> ParseHMS(s)

\* the datetime of a parsed date and a parsed time of day
Combine(d, t) ==
    IF d.ok /\ t.ok THEN Parsed(Instant(d.value, t.value)) ELSE ParseError

\* datetime.fromisoformat(s): a date, or a date, any one separator and a time
fromisoformat(s) ==
    IF Len(s) = 10 THEN Combine(ParseDate(s), Parsed(0))
    ELSE IF Len(s) > 11
         THEN Combine(ParseDate(SubSeq(s, 1, 10)), ParseIsoTime(SubSeq(s, 12, Len(s))))
    ELSE ParseError

\* datetime.strptime(s, "%Y-%m-%d %H:%M:%S")
strptime_ymd_hms(s) ==
    IF Len(s) = 19 /\ CharAt(s, 11) = " "
    THEN Combine(ParseDate(SubSeq(s, 1, 10)), ParseHMS(SubSeq(s, 12, 19)))
    ELSE ParseError

\* datetime.strptime(s, "%Y-%m-%d")
strptime_ymd(s) == Combine(ParseDate(s), Parsed(0))

\* s.split(c)[0]
RECURSIVE SplitFirst(_, _)
SplitFirst(s, c) ==
    IF Len(s) = 0 \/ CharAt(s, 1) = c THEN ""
    ELSE CharAt(s, 1) \o SplitFirst(SubSeq(s, 2, Len(s)), c)

\* s.replace(c, "")
RECURSIVE RemoveChar(_, _)
RemoveChar(s, c) ==
    IF Len(s) = 0 THEN ""
    ELSE (IF CharAt(s, 1) = c THEN "" ELSE CharAt(s, 1))
         \o RemoveChar(SubSeq(s, 2, Len(s)), c)

\* date.isoformat(), datetime.isoformat()
CivilIso(c) == Pad4(c.year) \o "-" \o Pad2(c.month) \o "-" \o Pad2(c.day)
TimeIso(t) == Pad2(t \div 3600) \o ":" \o Pad2((t % 3600) \div 60) \o ":" \o Pad2(t % 60)
DateIso(date) == CivilIso(CivilFromDays(date))
isoformat(instant) == DateIso(DateOf(instant)) \o "T" \o TimeIso(TimeOf(instant))

(***************************************************************************)
(* Repository data (DataService): service types are the list returned by   *)
(* get_service_types; customers, facilities, technicians and availability  *)
(* slots are loaded from CSV files at start-up and never written again.    *)
(***************************************************************************)
ServiceTypes ==
    << [service_id |-> "SVC001", service_name |-> "AC Routine Maintenance",
        required_skills |-> <<"HVAC">>, estimated_duration |-> 120],
       [service_id |-> "SVC002", service_name |-> "Emergency Plumbing Repair",
        required_skills |-> <<"Plumbing">>, estimated_duration |-> 90],
       [service_id |-> "SVC003", service_name |-> "Electrical Repair",
        required_skills |-> <<"Electrical">>, estimated_duration |-> 150],
       [service_id |-> "SVC004", service_name |-> "General Maintenance",
        required_skills |-> <<"General">>, estimated_duration |-> 100],
       [service_id |-> "SVC005", service_name |-> "AC Repair",
        required_skills |-> <<"HVAC">>, estimated_duration |-> 150],
       [service_id |-> "SVC006", service_name |-> "Plumbing Repair",
        required_skills |-> <<"Plumbing">>, estimated_duration |-> 120],
       [service_id |-> "SVC007", service_name |-> "AC Maintenance",
        required_skills |-> <<"HVAC">>, estimated_duration |-> 120] >>

\* UrgencyLevel enum values
UrgencyLevels == {"Routine", "Low", "Medium", "High", "Urgent", "Emergency"}

\* sample rows of customers.csv, facilities.csv, technicians.csv
Customers == {"CUST001"}
Facilities == [p \in {"PROP001"} |-> [area_zone |-> "Dubai Marina"]]
Technicians ==
    {"TECH001", "TECH002", "TECH003", "TECH004", "TECH005", "TECH006", "TECH007",
     "TECH008", "TECH009"}

\* sample dates
D_Jun02 == DaysFromCivil(2025, 6, 2)
D_Jun05 == DaysFromCivil(2025, 6, 5)
D_Jan04 == DaysFromCivil(2027, 1, 4)

\* sample rows of availability.csv, in file order
AvailabilitySlots ==
    << [technician_id |-> "TECH001", technician_name |-> "Ahmed",
        skillset |-> <<"HVAC", "Electrical">>, zone |-> "Marina",
        available_start_time |-> Instant(D_Jun02, HMS(8, 0, 0)),
        available_end_time |-> Instant(D_Jun02, HMS(18, 0, 0))],
       [technician_id |-> "TECH002", technician_name |-> "Sara",
        skillset |-> <<"hvac">>, zone |-> "Dubai Marina",
        available_start_time |-> Instant(D_Jun05, HMS(8, 0, 0)),
        available_end_time |-> Instant(D_Jun05, HMS(18, 0, 0))],
       [technician_id |-> "TECH001", technician_name |-> "Ahmed",
        skillset |-> <<"HVAC", "Electrical">>, zone |-> "Marina",
        available_start_time |-> Instant(D_Jan04, HMS(8, 0, 0)),
        available_end_time |-> Instant(D_Jan04, HMS(18, 0, 0))] >>

\* one row of availability.csv: a window of one technician on one day
Row(technician_id, skillset, zone, date, from_hour, to_hour) ==
    [technician_id |-> technician_id, technician_name |-> "Tech " \o technician_id,
     skillset |-> skillset, zone |-> zone,
     available_start_time |-> Instant(date, HMS(from_hour, 0, 0)),
     available_end_time |-> Instant(date, HMS(to_hour, 0, 0))]

\* Monday 2025-06-02 and the days after it
Day(n) == D_Jun02 + n

\* one technician free all day on each of the eight days from Monday on,
\* the Friday included
WeekRows == [n \in 1..8 |-> Row("TECH001", <<"HVAC", "Electrical">>, "Marina", Day(n - 1), 8, 18)]

\* short windows on Thursday and Saturday, whole days on Friday and on the
\* Monday after, two technicians on the Sunday
SparseRows ==
    << Row("TECH001", <<"HVAC">>, "Dubai Marina", Day(3), 9, 11),
       Row("TECH002", <<"hvac">>, "Marina", Day(4), 8, 18),
       Row("TECH002", <<"hvac">>, "Marina", Day(5), 14, 16),
       Row("TECH003", <<"Plumbing">>, "Marina", Day(6), 8, 18),
       Row("TECH002", <<"hvac">>, "Marina", Day(6), 16, 19),
       Row("TECH001", <<"HVAC">>, "Dubai Marina", Day(6), 15, 19),
       Row("TECH001", <<"HVAC">>, "Dubai Marina", Day(7), 8, 18) >>

\* two adjacent windows of one technician on the Monday, and skills that are
\* parts of other skills
AdjacentRows ==
    << Row("TECH001", <<"HVAC", "Electrical">>, "Marina", Day(0), 8, 12),
       Row("TECH001", <<"HVAC", "Electrical">>, "Marina", Day(0), 12, 18),
       Row("TECH004", <<"ac">>, "Dubai Marina", Day(0), 8, 18),
       Row("TECH005", <<"Maintenance">>, "Dubai Marina", Day(0), 8, 18) >>

\* seven technicians free on the Monday, one of them a plumber, one of them
\* in another zone
CrowdRows ==
    << Row("TECH001", <<"HVAC">>, "Marina", Day(0), 8, 18),
       Row("TECH002", <<"Plumbing">>, "Marina", Day(0), 8, 18),
       Row("TECH003", <<"HVAC">>, "Marina", Day(0), 8, 18),
       Row("TECH004", <<"HVAC">>, "Deira", Day(0), 8, 18),
       Row("TECH005", <<"hvac", "Plumbing">>, "Dubai Marina", Day(0), 8, 18),
       Row("TECH006", <<"HVAC">>, "Marina", Day(0), 8, 18),
       Row("TECH007", <<"HVAC">>, "Marina", Day(0), 8, 18),
       Row("TECH008", <<"HVAC">>, "Marina", Day(0), 13, 18),
       Row("TECH009", <<"HVAC">>, "Marina", Day(0), 8, 18) >>

\* one technician free for the two hours from 10:00 on the Tuesday, and no
\* other row
OneHourRows == << Row("TECH001", <<"HVAC">>, "Marina", Day(1), 10, 12) >>

\* the availability files of the runs
SlotData == {WeekRows, SparseRows, AdjacentRows, CrowdRows, OneHourRows}

\* required skills and zones asked for in the searches
SkillSamples == {<<"HVAC">>, <<"AC Maintenance">>, <<"HVAC", "Electrical">>, <<"Plumbing">>}
ZoneSamples == {"Dubai Marina", "marina", "Deira"}
ZoneTexts == {"Dubai Marina", "Deira"}

(***************************************************************************)
(* DataService.find_available_technicians                                  *)
(***************************************************************************)
SeqToSet(q) == {q[i] : i \in 1..Len(q)}

\* the skill and zone texts of the data and of the searches
MatchTexts ==
    UNION { UNION {SeqToSet(rows[i].skillset) \cup {rows[i].zone} : i \in 1..Len(rows)} :
                rows \in SlotData \cup {AvailabilitySlots} }
    \cup UNION {SeqToSet(ServiceTypes[i].required_skills) : i \in 1..Len(ServiceTypes)}
    \cup UNION {SeqToSet(required_skills) : required_skills \in SkillSamples}
    \cup {Facilities[p].area_zone : p \in DOMAIN Facilities}
    \cup ZoneSamples \cup ZoneTexts

\* text.lower(), evaluated once for each of them
LowerMemo == [text \in MatchTexts |-> Lower(text)]

\* skill.lower() in slot_skill.lower() or slot_skill.lower() in skill.lower()
EitherContains(a, b) == Contains(b, a) \/ Contains(a, b)

\* variant: a slot skill has to contain the required skill
HasSkillsOneWay(required_skills, skillset) ==
    \A skill \in SeqToSet(required_skills) :
        \E slot_skill \in SeqToSet(skillset) :
            Contains(LowerMemo[slot_skill], LowerMemo[skill])

\* every required skill is a substring of some slot skill or contains it
HasSkills(required_skills, skillset) ==
    \A skill \in SeqToSet(required_skills) :
        \E slot_skill \in SeqToSet(skillset) :
            EitherContains(LowerMemo[skill], LowerMemo[slot_skill])

ZoneMatch(zone, slot_zone) ==
    \/ EitherContains(LowerMemo[zone], LowerMemo[slot_zone])
    \/ LowerMemo[slot_zone] = LowerMemo[zone]

\* variant: the visit only has to start inside the window
TimeAvailableAtStart(slot, requested_datetime, duration_minutes) ==
    /\ slot.available_start_time <= requested_datetime
    /\ slot.available_end_time > requested_datetime

TimeAvailable(slot, requested_datetime, duration_minutes) ==
    /\ slot.available_start_time <= requested_datetime
    /\ slot.available_end_time >= requested_datetime + Minutes(duration_minutes)

SlotMatches(slot, required_skills, zone, requested_datetime, duration_minutes) ==
    /\ HasSkills(required_skills, slot.skillset)
    /\ ZoneMatch(zone, slot.zone)
    /\ TimeAvailable(slot, requested_datetime, duration_minutes)

\* the matching slots, in the order of the slot data
RECURSIVE FilterSlots(_, _, _, _, _)
FilterSlots(slots, required_skills, zone, requested_datetime, duration_minutes) ==
    IF Len(slots) = 0 THEN << >>
    ELSE LET rest == FilterSlots(Tail(slots), required_skills, zone,
                                 requested_datetime, duration_minutes)
         IN  IF SlotMatches(Head(slots), required_skills, zone,
                            requested_datetime, duration_minutes)
             THEN <<Head(slots)>> \o rest
             ELSE rest

find_available_technicians(slots, required_skills, zone, requested_datetime, duration_minutes) ==
    FilterSlots(slots, required_skills, zone, requested_datetime, duration_minutes)

(***************************************************************************)
(* Regular-expression search on lower-cased text (re.search with \b)       *)
(***************************************************************************)
IsWordChar(c) ==
    Len(c) = 1 /\ Contains(LowerLetters \o UpperLetters \o Digits \o "_", c)

\* \b between the characters p-1 and p of s
WordBoundary(s, p) ==
    (p > 1 /\ IsWordChar(CharAt(s, p - 1))) # (p <= Len(s) /\ IsWordChar(CharAt(s, p)))

\* re.search(r'\b(w1|w2|...)\b', s)
SearchWords(s, words) ==
    \E w \in words : \E i \in 1..(Len(s) - Len(w) + 1) :
        /\ SubSeq(s, i, i + Len(w) - 1) = w
        /\ WordBoundary(s, i)
        /\ WordBoundary(s, i + Len(w))

IsSpace(c) == c \in {" ", "\t", "\n"}

\* am|pm|p\.?m\.?|a\.?m\.?
MeridiemForms == {"am", "a.m", "am.", "a.m.", "pm", "p.m", "pm.", "p.m."}

\* re.search(r'\b(\d{1,2}):?(\d{2})?\s*(am|pm|p\.?m\.?|a\.?m\.?)\b', s)
SearchClockTime(s) ==
    \E i \in 1..Len(s) : \E n1 \in {1, 2} : \E colon \in {0, 1} : \E n2 \in {0, 2} :
    \E ws \in 0..Len(s) : \E suffix \in MeridiemForms :
        LET a == i + n1
            b == a + colon
            c == b + n2
            d == c + ws
            e == d + Len(suffix)
        IN  /\ e <= Len(s) + 1
            /\ WordBoundary(s, i)
            /\ AllDigits(SubSeq(s, i, a - 1))
            /\ (colon = 1 => CharAt(s, a) = ":")
            /\ (n2 = 2 => AllDigits(SubSeq(s, b, c - 1)))
            /\ \A k \in c..(d - 1) : IsSpace(CharAt(s, k))
            /\ SubSeq(s, d, e - 1) = suffix
            /\ WordBoundary(s, e)

\* confirmation_patterns of execute_booking_from_context
ConfirmWords == {"yes", "yeah", "yep", "sure", "ok", "okay", "confirm", "book", "schedule"}
DayPartWords == {"afternoon", "morning", "evening"}
AcceptPhrases == {"that works", "sounds good", "perfect", "great", "done"}
FinePhrases == {"that's fine", "thats fine", "that's good", "thats good", "fine"}

is_confirmation(user_confirmation) ==
    LET t == Lower(user_confirmation)
    IN  \/ SearchWords(t, ConfirmWords)
        \/ SearchClockTime(t)
        \/ SearchWords(t, DayPartWords)
        \/ SearchWords(t, AcceptPhrases)
        \/ SearchWords(t, FinePhrases)

\* confirmation_keywords of detect_booking_confirmation
confirmation_keywords ==
    {"yes", "yeah", "yep", "sure", "ok", "okay", "confirm", "book",
     "schedule", "that works", "sounds good", "perfect", "great",
     "done", "let's do it", "go ahead", "that's fine", "that's good",
     "fine", "alright", "works for me"}

\* any(keyword in message_lower for keyword in confirmation_keywords)
has_confirmation(user_message) ==
    \E keyword \in confirmation_keywords : Contains(Lower(user_message), keyword)

(***************************************************************************)
(* Inputs of the operations                                                *)
(***************************************************************************)
MaxWorkOrderIds == 2

\* the session ids of the conversations
Sessions == {"s1"}

\* the values uuid4().hex[:8] is drawn from
WorkOrderIds == {"WO_" \o CharAt(Digits, k + 1) : k \in 1..MaxWorkOrderIds}

\* the clock readings datetime.now() returns
NowSamples ==
    { Instant(DaysFromCivil(2025, 6, 1), HMS(8, 0, 0)),
      Instant(DaysFromCivil(2026, 12, 31), HMS(10, 0, 0)) }

\* arguments of store_booking_context
Requests ==
    { [customer_id |-> "CUST001", property_id |-> "PROP001",
       service_type |-> "AC Maintenance", service_id |-> "SVC007",
       problem_description |-> "AC not cooling", area_zone |-> "Marina",
       urgency |-> "High"],
      [customer_id |-> "CUST999", property_id |-> "PROP001",
       service_type |-> "SVC005", service_id |-> "SVC005",
       problem_description |-> "AC leaking", area_zone |-> "JLT",
       urgency |-> "ASAP"] }

\* service types asked for in check_technician_availability
ServiceTexts == {"AC Maintenance", "Plumbing Leak", "Gardening"}

\* requests that name a service or a facility the data does not hold
UnknownRequests ==
    { [customer_id |-> "CUST001", property_id |-> "PROP001",
       service_type |-> "Gardening", service_id |-> "SVC099",
       problem_description |-> "hedge", area_zone |-> "Marina",
       urgency |-> "Low"],
      [customer_id |-> "CUST001", property_id |-> "PROP999",
       service_type |-> "AC Maintenance", service_id |-> "SVC007",
       problem_description |-> "AC not cooling", area_zone |-> "Marina",
       urgency |-> "High"] }

\* (technician_id, technician_name) arguments of update_booking_context
OfferedTechnicians ==
    { [id |-> "TECH001", name |-> "Ahmed"],
      [id |-> "TECH002", name |-> "Sara"] }

\* checked_datetime arguments of update_booking_context
CheckedTexts == {"2025-06-02T14:00:00", "2025-06-05T14:00:00"}

\* new_preferred_date and alternative_dates arguments of update_preferred_date
PreferredTexts == {"2025-06-05"}
AlternativeTexts == {"", "2025-06-05, 2025-06-08"}

\* confirmed_datetime arguments of execute_booking_from_context
ConfirmedTexts ==
    {"2025-06-02T14:00:00", "2027-01-04T14:00:00", "2025-06-02 14:00", "2 pm"}

\* user_confirmation arguments of execute_booking_from_context
UserMessages == {"Yes", "no", "3 pm"}

\* the arguments of a conversation that asks for Monday 2025-06-02 at 14:00
\* and is offered Tuesday 2025-06-03 at 10:00
ScenarioCheckedTexts == {"2025-06-02T14:00:00", "2025-06-03T10:00:00"}
ScenarioPreferredTexts == {"2025-06-03"}
ScenarioConfirmedTexts == {"2025-06-03T10:00:00", "2025-06-02T14:00:00"}
ScenarioMessages == {"that works", "no"}

(***************************************************************************)
(* State                                                                   *)
(***************************************************************************)
VARIABLES
    now,           \* datetime.now(): the clock reading of the run
    contexts,      \* _booking_contexts: session id -> context
    work_orders,   \* data_service._work_orders: work order id -> work order
    last,          \* the last call and what it returned
    booked,        \* history: the sessions booked since their last store_booking_context
    availability_slots,  \* data_service._availability_slots: the rows of availability.csv
    tasks,         \* the execute calls in flight: where each one stands and its locals
    effects,       \* history: the side effects each call dispatched so far, in order
    active_sessions,  \* StreamingManager.active_sessions: the session ids it holds
    connections    \* the websocket connections: the handler, its two tasks, the socket and the queue

vars == <<now, contexts, work_orders, last, booked, availability_slots,
          tasks, effects, active_sessions, connections>>

\* what the booking tools, called one after the other, never touch
in_flight == <<tasks, effects, active_sessions, connections>>

None == "<None>"      \* Python None in a text field
Absent == "<absent>"  \* a dict key that is not set

current_time == now

\* d[k] = v
Put(d, k, v) == [x \in DOMAIN d \cup {k} |-> IF x = k THEN v ELSE d[x]]
\* del d[k]
Del(d, k) == [x \in DOMAIN d \ {k} |-> d[x]]
EmptyDict == [x \in {} |-> 0]

\* the context store_booking_context builds
NewContext(req) ==
    [customer_id |-> req.customer_id,
     property_id |-> req.property_id,
     service_type |-> req.service_type,
     service_id |-> req.service_id,
     problem_description |-> req.problem_description,
     area_zone |-> req.area_zone,
     urgency |-> req.urgency,
     preferred_technician_id |-> Absent,
     preferred_technician_name |-> Absent,
     last_checked_datetime |-> None,
     suggested_alternatives |-> << >>,
     original_requested_date |-> None,
     current_preferred_date |-> None]

\* stands for "no context" in the record of a call
NoContext ==
    [customer_id |-> Absent, property_id |-> Absent, service_type |-> Absent,
     service_id |-> Absent, problem_description |-> Absent, area_zone |-> Absent,
     urgency |-> Absent, preferred_technician_id |-> Absent,
     preferred_technician_name |-> Absent, last_checked_datetime |-> None,
     suggested_alternatives |-> << >>, original_requested_date |-> None,
     current_preferred_date |-> None]

\* the record of a call: its arguments, the context it found and its result
Call(op, session_id, status, outcome) ==
    [op |-> op, session_id |-> session_id, status |-> status, outcome |-> outcome,
     confirmed_datetime |-> None, user_confirmation |-> None,
     new_preferred_date |-> None, request |-> None,
     detected |-> [is_confirmation |-> FALSE, extracted_time |-> None,
                   confidence |-> "-"],
     context |-> NoContext, final_datetime |-> None, technician_id |-> Absent,
     scheduled_dt |-> -1, work_order_id |-> Absent,
     calendar |-> "not attempted", email |-> "not attempted",
     calendar_created |-> FALSE, email_sent |-> FALSE,
     old_status |-> None, new_status |-> None, current_status |-> None]

\* the execute calls that can be in flight at once
MaxCalls == 2
Tasks == 1..MaxCalls

\* an execute call that has not been made yet
IdleTask == [pc |-> "idle", call |-> Call("start", Absent, "-", "-")]

\* the websocket connections, one per session id of a client
SocketSessions == {"c1", "c2"}

\* a session id no client has connected with yet
NotConnected ==
    [handler |-> "idle", agent_to_client |-> "-", client_to_agent |-> "-",
     websocket |-> "-", live_request_queue |-> "-", requests |-> 0, messages |-> 0]

\* no execute call is in flight, nothing was dispatched, no client is connected
NothingInFlight ==
    /\ tasks = [t \in Tasks |-> IdleTask]
    /\ effects = [t \in Tasks |-> << >>]
    /\ active_sessions = {}
    /\ connections = [c \in SocketSessions |-> NotConnected]

Init ==
    /\ NothingInFlight
    /\ now \in NowSamples
    /\ contexts = EmptyDict
    /\ work_orders = EmptyDict
    /\ last = Call("start", Absent, "-", "-")
    /\ booked = {}
    /\ availability_slots = AvailabilitySlots

(***************************************************************************)
(* booking_context.py: the context store                                   *)
(***************************************************************************)
\* variant: the keys the new context does not set are taken from the old one
StoreOverContext(d, session_id, req) ==
    IF session_id \in DOMAIN d
    THEN [d EXCEPT ![session_id] =
             [NewContext(req) EXCEPT
                 !.preferred_technician_id = d[session_id].preferred_technician_id,
                 !.preferred_technician_name = d[session_id].preferred_technician_name]]
    ELSE Put(d, session_id, NewContext(req))

\* _booking_contexts[session_id] = context
StoreContext(d, session_id, req) == Put(d, session_id, NewContext(req))

store_booking_context(session_id, req) ==
    /\ contexts' = StoreContext(contexts, session_id, req)
    /\ last' = [Call("store_booking_context", session_id, "success", "context_stored")
                  EXCEPT !.request = req,
                         !.technician_id =
                             IF session_id \in DOMAIN contexts
                             THEN contexts[session_id].preferred_technician_id
                             ELSE Absent]
    /\ booked' = booked \ {session_id}
    /\ UNCHANGED <<now, work_orders, availability_slots>>

\* variant: every check replaces the original request
LatestCheckedDate(original_requested_date, checked_datetime) == checked_datetime

\* "If this is the first check, store as original request"
OriginalRequestedDate(original_requested_date, checked_datetime) ==
    IF original_requested_date = None THEN checked_datetime ELSE original_requested_date

update_booking_context(session_id, technician, checked_datetime) ==
    /\ IF session_id \notin DOMAIN contexts
       THEN /\ last' = Call("update_booking_context", session_id, "error", "no_context")
            /\ UNCHANGED contexts
       ELSE /\ contexts' = [contexts EXCEPT ![session_id] =
                   [@ EXCEPT !.preferred_technician_id = technician.id,
                             !.preferred_technician_name = technician.name,
                             !.last_checked_datetime = checked_datetime,
                             !.original_requested_date =
                                 OriginalRequestedDate(@, checked_datetime),
                             !.current_preferred_date = checked_datetime]]
            /\ last' = Call("update_booking_context", session_id, "success", "context_updated")
    /\ UNCHANGED <<now, work_orders, booked, availability_slots>>

\* s.split(c)
RECURSIVE Split(_, _)
Split(s, c) ==
    IF ~Contains(s, c) THEN <<s>>
    ELSE <<SplitFirst(s, c)>> \o Split(SubSeq(s, Len(SplitFirst(s, c)) + 2, Len(s)), c)

\* s.strip()
RECURSIVE Strip(_)
Strip(s) ==
    IF Len(s) > 0 /\ IsSpace(CharAt(s, 1)) THEN Strip(SubSeq(s, 2, Len(s)))
    ELSE IF Len(s) > 0 /\ IsSpace(CharAt(s, Len(s))) THEN Strip(SubSeq(s, 1, Len(s) - 1))
    ELSE s

\* [date.strip() for date in alternative_dates.split(",")]
AlternativeList(alternative_dates) ==
    LET parts == Split(alternative_dates, ",")
    IN  [i \in 1..Len(parts) |-> Strip(parts[i])]

\* variant: the new date also becomes the original request
WithPreferredDateAsOriginal(context, new_preferred_date, alternative_dates) ==
    [context EXCEPT !.suggested_alternatives =
                        IF alternative_dates # ""
                        THEN AlternativeList(alternative_dates) ELSE @,
                    !.current_preferred_date = new_preferred_date,
                    !.original_requested_date = new_preferred_date]

\* the two assignments update_preferred_date makes to the context
WithPreferredDate(context, new_preferred_date, alternative_dates) ==
    [context EXCEPT !.suggested_alternatives =
                        IF alternative_dates # ""
                        THEN AlternativeList(alternative_dates) ELSE @,
                    !.current_preferred_date = new_preferred_date]

update_preferred_date(session_id, new_preferred_date, alternative_dates) ==
    /\ IF session_id \notin DOMAIN contexts
       THEN /\ last' = [Call("update_preferred_date", session_id, "error", "no_context")
                          EXCEPT !.new_preferred_date = new_preferred_date]
            /\ UNCHANGED contexts
       ELSE /\ contexts' = [contexts EXCEPT ![session_id] =
                   WithPreferredDate(@, new_preferred_date, alternative_dates)]
            /\ last' = [Call("update_preferred_date", session_id, "success", "date_updated")
                          EXCEPT !.new_preferred_date = new_preferred_date]
    /\ UNCHANGED <<now, work_orders, booked, availability_slots>>

get_booking_context(session_id) ==
    /\ last' = IF session_id \notin DOMAIN contexts
               THEN Call("get_booking_context", session_id, "error", "no_context")
               ELSE [Call("get_booking_context", session_id, "success", "context_found")
                        EXCEPT !.context = contexts[session_id]]
    /\ UNCHANGED <<now, contexts, work_orders, booked, availability_slots>>

clear_booking_context(session_id) ==
    /\ contexts' = IF session_id \in DOMAIN contexts
                   THEN Del(contexts, session_id) ELSE contexts
    /\ last' = Call("clear_booking_context", session_id, "success", "context_cleared")
    /\ UNCHANGED <<now, work_orders, booked, availability_slots>>

(***************************************************************************)
(* booking_context.py: detect_booking_confirmation                         *)
(***************************************************************************)
\* the parts the sampled messages are put together from
ConfirmParts ==
    {"", "Yes", "no", "Sure,", "facebook", "that works", "Alright", "not now"}
TimeParts ==
    {"", " 3 pm", " at 14:30", " 12 PM", " in the morning", " 2:30 pm",
     " at 7", " 11 a.m."}

\* user_message arguments of detect_booking_confirmation
DetectMessages == {a \o b : a \in ConfirmParts, b \in TimeParts}

\* the length of the run of whitespace that starts at position p of s
RECURSIVE SpaceRun(_, _)
SpaceRun(s, p) ==
    IF p <= Len(s) /\ IsSpace(CharAt(s, p)) THEN 1 + SpaceRun(s, p + 1) ELSE 0

\* am|pm|p\.?m\.?|a\.?m\.? and pm|p\.?m\.? in the order the engine tries
\* their forms
MeridiemOrder == <<"am", "pm", "p.m.", "p.m", "pm.", "a.m.", "a.m", "am.">>
PmOrder == <<"pm", "p.m.", "p.m", "pm.">>

\* a way to match \b(\d{1,2}):?(\d{2})?\s*(suffix)\b at position start of s
IsClockMatch(s, m, suffixes) ==
    LET a == m.start + m.digits
        b == a + m.colon
        c == b + m.minutes
        d == c + SpaceRun(s, c)
        e == d + Len(suffixes[m.suffix])
    IN  /\ e <= Len(s) + 1
        /\ WordBoundary(s, m.start)
        /\ AllDigits(SubSeq(s, m.start, a - 1))
        /\ (m.colon = 1 => CharAt(s, a) = ":")
        /\ (m.minutes = 2 => AllDigits(SubSeq(s, b, c - 1)))
        /\ SubSeq(s, d, e - 1) = suffixes[m.suffix]
        /\ WordBoundary(s, e)

\* where the match ends
ClockMatchEnd(s, m, suffixes) ==
    LET c == m.start + m.digits + m.colon + m.minutes
    IN  c + SpaceRun(s, c) + Len(suffixes[m.suffix])

\* the matches of the pattern in s; rank is the order in which the greedy
\* quantifiers and the alternation reach a match from one start
ClockMatches(s, colons, minutes, suffixes) ==
    { [start |-> m.start, end |-> ClockMatchEnd(s, m, suffixes),
       rank |-> (((2 - m.digits) * 2 + (1 - m.colon)) * 2
                    + (IF m.minutes = 2 THEN 0 ELSE 1)) * 16 + m.suffix,
       hour |-> SubSeq(s, m.start, m.start + m.digits - 1)] :
      m \in { x \in [start : 1..Len(s), digits : {1, 2}, colon : colons,
                     minutes : minutes, suffix : DOMAIN suffixes] :
                  IsClockMatch(s, x, suffixes) } }

\* the matches of \b(morning|afternoon|evening)\b in s
WordMatches(s, words) ==
    { [start |-> x[1], end |-> x[1] + Len(x[2]), rank |-> 0, hour |-> ""] :
      x \in { y \in (1..Len(s)) \X words :
                  /\ y[1] + Len(y[2]) - 1 <= Len(s)
                  /\ SubSeq(s, y[1], y[1] + Len(y[2]) - 1) = y[2]
                  /\ WordBoundary(s, y[1])
                  /\ WordBoundary(s, y[1] + Len(y[2])) } }

\* the matches of \b(\d{1,2}):\d{2}\b in s
ColonMatches(s) ==
    { [start |-> x[1], end |-> x[1] + x[2] + 3, rank |-> 2 - x[2],
       hour |-> SubSeq(s, x[1], x[1] + x[2] - 1)] :
      x \in { y \in (1..Len(s)) \X {1, 2} :
                  /\ y[1] + y[2] + 2 <= Len(s)
                  /\ WordBoundary(s, y[1])
                  /\ AllDigits(SubSeq(s, y[1], y[1] + y[2] - 1))
                  /\ CharAt(s, y[1] + y[2]) = ":"
                  /\ AllDigits(SubSeq(s, y[1] + y[2] + 1, y[1] + y[2] + 2))
                  /\ WordBoundary(s, y[1] + y[2] + 3) } }

\* re.search: the leftmost match, and of those the one the engine reaches first
FirstMatch(matches) ==
    CHOOSE m \in matches :
        \A o \in matches :
            m.start < o.start \/ (m.start = o.start /\ m.rank <= o.rank)

\* match.group(0) of the first pattern of time_patterns that matches, else None
RECURSIVE FirstGroup(_, _)
FirstGroup(s, patterns) ==
    IF patterns = << >> THEN None
    ELSE IF Head(patterns) # {}
    THEN SubSeq(s, FirstMatch(Head(patterns)).start, FirstMatch(Head(patterns)).end - 1)
    ELSE FirstGroup(s, Tail(patterns))

time_patterns(s) ==
    << ClockMatches(s, {0, 1}, {0, 2}, MeridiemOrder),
       ClockMatches(s, {0}, {0}, MeridiemOrder),
       WordMatches(s, DayPartWords),
       ColonMatches(s) >>

\* f"{hour:02d}"
Format02d(n) ==
    IF n < 100 THEN Pad2(n) ELSE CharAt(Digits, (n \div 100) + 1) \o Pad2(n % 100)

\* hour = int(time_match.group(1)); if hour != 12: hour += 12
PmHour(hour) == IF hour # 12 THEN hour + 12 ELSE hour

\* extracted_time: the "N pm" match replaces what the patterns found
ExtractedTime(generic, pm_matches) ==
    IF pm_matches # {}
    THEN Format02d(PmHour(ParseInt(FirstMatch(pm_matches).hour))) \o ":00"
    ELSE generic

extracted_time(message_lower) ==
    ExtractedTime(FirstGroup(message_lower, time_patterns(message_lower)),
                  ClockMatches(message_lower, {0}, {0}, PmOrder))

\* variant: a time alone is enough for "high"
ConfidenceByTime(has, extracted) ==
    IF extracted \notin {None, ""} THEN "high"
    ELSE IF has THEN "medium" ELSE "low"

\* "high" if has_confirmation and extracted_time else "medium" if
\* has_confirmation else "low"
Confidence(has, extracted) ==
    IF has /\ extracted \notin {None, ""} THEN "high"
    ELSE IF has THEN "medium" ELSE "low"

\* what detect_booking_confirmation returns
Detected(has, extracted) ==
    [is_confirmation |-> has, extracted_time |-> extracted,
     confidence |-> Confidence(has, extracted)]

DetectMemo ==
    [user_message \in DetectMessages \cup UserMessages |->
        Detected(has_confirmation(Strip(user_message)),
                 extracted_time(Lower(Strip(user_message))))]

detect_booking_confirmation(user_message) ==
    /\ last' = [Call("detect_booking_confirmation", Absent, "success", "detected")
                  EXCEPT !.user_confirmation = user_message,
                         !.detected = DetectMemo[user_message]]
    /\ UNCHANGED <<now, contexts, work_orders, booked, availability_slots>>

(***************************************************************************)
(* booking_context.py: the instant reconciliation of                       *)
(* execute_booking_from_context                                            *)
(***************************************************************************)
\* final_datetime, from the context's current and original dates and the
\* confirmed text
\* preferred date + confirmed time; the confirmed text when either parse raised
PreferredDateConfirmedTime(preferred, confirmed, confirmed_datetime) ==
    IF preferred.ok /\ confirmed.ok
    THEN isoformat(Instant(DateOf(preferred.value), TimeOf(confirmed.value)))
    ELSE confirmed_datetime

\* variant: the original request wins over the preferred date
ReconcileToOriginal(current_preferred_date, original_requested_date, confirmed_datetime) ==
    IF /\ original_requested_date \notin {None, ""}
       /\ current_preferred_date # original_requested_date
    THEN original_requested_date
    ELSE confirmed_datetime

Reconcile(current_preferred_date, original_requested_date, confirmed_datetime) ==
    IF /\ current_preferred_date \notin {None, ""}
       /\ current_preferred_date # original_requested_date
    THEN PreferredDateConfirmedTime(
             fromisoformat(current_preferred_date),
             IF Contains(confirmed_datetime, "T")
             THEN fromisoformat(confirmed_datetime)
             ELSE strptime_ymd_hms(confirmed_datetime),
             confirmed_datetime)
    ELSE confirmed_datetime

\* the values the date fields of a context can hold
ContextDateTexts ==
    {None} \cup CheckedTexts \cup PreferredTexts
        \cup ScenarioCheckedTexts \cup ScenarioPreferredTexts

FinalDatetimeMemo ==
    [cur \in ContextDateTexts, orig \in ContextDateTexts,
     confirmed \in ConfirmedTexts \cup ScenarioConfirmedTexts
        |-> Reconcile(cur, orig, confirmed)]

\* the texts execute can hand to book_appointment
ReconciledTexts == {FinalDatetimeMemo[x] : x \in DOMAIN FinalDatetimeMemo}

\* the instants an availability check can offer, as the texts of its result:
\* the Monday and the eight days after it, at the hours of the checks
OfferedTexts ==
    {isoformat(Instant(Day(d), HMS(h, 0, 0))) :
        d \in 0..8, h \in {9, 10, 11, 14, 15, 16, 17}}

\* the texts book_appointment can be handed
ScheduledTexts == ReconciledTexts \cup OfferedTexts

IsConfirmationMemo ==
    [msg \in UserMessages \cup ScenarioMessages |-> is_confirmation(msg)]

(***************************************************************************)
(* scheduling.py: book_appointment                                         *)
(***************************************************************************)
\* the first parse, else the date part at 09:00, else the ValueError
FirstOrDateAtNine(first, second) ==
    IF first.ok THEN first
    ELSE IF second.ok THEN Parsed(second.value + HMS(9, 0, 0))
    ELSE ParseError

\* the scheduled_dt book_appointment parses, or the ValueError of both attempts
ParseScheduled(scheduled_datetime) ==
    IF Contains(scheduled_datetime, "T")
    THEN FirstOrDateAtNine(fromisoformat(RemoveChar(scheduled_datetime, "Z")),
                           strptime_ymd(SplitFirst(scheduled_datetime, "T")))
    ELSE FirstOrDateAtNine(strptime_ymd_hms(scheduled_datetime),
                           strptime_ymd(SplitFirst(scheduled_datetime, " ")))

\* the first service whose name contains service_type or whose id is it; 0 if none
FindService(service_type) ==
    LET hits == {i \in 1..Len(ServiceTypes) :
                    \/ Contains(Lower(ServiceTypes[i].service_name), Lower(service_type))
                    \/ ServiceTypes[i].service_id = service_type}
    IN  IF hits = {} THEN 0 ELSE CHOOSE i \in hits : \A j \in hits : i <= j

\* final_check of book_appointment, for a service, a facility and a parsed instant
FinalCheck(slots, svc, property_id, parsed) ==
    IF svc = 0 \/ property_id \notin DOMAIN Facilities \/ ~parsed.ok THEN << >>
    ELSE find_available_technicians(slots,
                                    ServiceTypes[svc].required_skills,
                                    Facilities[property_id].area_zone,
                                    parsed.value,
                                    ServiceTypes[svc].estimated_duration)

\* The text operations above, evaluated once for the texts the inputs can
\* produce (the model checker keeps these tables instead of re-evaluating them).
ParseScheduledMemo == [text \in ScheduledTexts |-> ParseScheduled(text)]

FindServiceMemo ==
    [service_type \in {req.service_type : req \in Requests \cup UnknownRequests}
                         \cup ServiceTexts |->
        FindService(service_type)]

FinalCheckMemo ==
    [service_type \in {req.service_type : req \in Requests \cup UnknownRequests},
     property_id \in {req.property_id : req \in Requests \cup UnknownRequests},
     text \in ReconciledTexts |->
        FinalCheck(AvailabilitySlots, FindService(service_type), property_id,
                   ParseScheduled(text))]

\* final_check on the rows the service holds: the table for the rows as they
\* were loaded, the search itself for any other rows
FinalCheckOn(slots, service_type, property_id, text) ==
    IF slots = AvailabilitySlots
    THEN FinalCheckMemo[service_type, property_id, text]
    ELSE FinalCheck(slots, FindServiceMemo[service_type], property_id,
                    ParseScheduledMemo[text])

\* variant: any technician of the final check will do
AnyTechnicianAvailable(final_check, technician_id) == Len(final_check) > 0

\* technician_still_available
TechnicianStillAvailable(final_check, technician_id) ==
    \E i \in 1..Len(final_check) : final_check[i].technician_id = technician_id

\* the checks of book_appointment, in order: the first that fails, or "ok"
FirstFailure(parsed, svc, final_check, customer_id, property_id, technician_id) ==
    IF ~parsed.ok THEN "invalid_datetime"
    ELSE IF parsed.value <= current_time THEN "past"
    ELSE IF YearOf(parsed.value) < 2025 \/ YearOf(parsed.value) > 2026 THEN "invalid_year"
    ELSE IF svc = 0 THEN "service_not_found"
    ELSE IF customer_id \notin Customers THEN "customer_not_found"
    ELSE IF property_id \notin DOMAIN Facilities THEN "facility_not_found"
    ELSE IF technician_id \notin Technicians THEN "technician_not_found"
    ELSE IF ~TechnicianStillAvailable(final_check, technician_id)
         THEN "slot_no_longer_available"
    ELSE "ok"

BookingCheck(customer_id, property_id, service_type, scheduled_datetime, technician_id) ==
    FirstFailure(ParseScheduledMemo[scheduled_datetime],
                 FindServiceMemo[service_type],
                 FinalCheckOn(availability_slots, service_type, property_id,
                              scheduled_datetime),
                 customer_id, property_id, technician_id)

\* UrgencyLevel(urgency), Medium when the value is not one of the enum
UrgencyLevel(urgency) == IF urgency \in UrgencyLevels THEN urgency ELSE "Medium"

\* the work order book_appointment creates
NewWorkOrder(work_order_id, customer_id, property_id, service_type, problem_description, scheduled_datetime, technician_id, urgency) ==
    [work_order_id |-> work_order_id,
     customer_id |-> customer_id,
     property_id |-> property_id,
     service_id |-> ServiceTypes[FindServiceMemo[service_type]].service_id,
     problem_description |-> problem_description,
     status |-> "Scheduled",
     urgency |-> UrgencyLevel(urgency),
     request_date_time |-> current_time,
     scheduled_date_time |-> ParseScheduledMemo[scheduled_datetime].value,
     assigned_technician_id |-> technician_id,
     completion_date_time |-> -1,
     completion_notes |-> None]

(***************************************************************************)
(* booking_context.py: execute_booking_from_context                        *)
(***************************************************************************)
\* the datetime text handed to book_appointment
FinalDatetime(context, confirmed_datetime) ==
    FinalDatetimeMemo[context.current_preferred_date,
                      context.original_requested_date, confirmed_datetime]

\* context.get("preferred_technician_id", "TECH001")
BookingTechnician(context) ==
    IF context.preferred_technician_id = Absent
    THEN "TECH001" ELSE context.preferred_technician_id

\* variant: a lookup that inserts a default context for the missing session
ContextsAfterMissCreated(session_id) ==
    Put(contexts, session_id, NewContext(CHOOSE req \in Requests : req.customer_id \in Customers))

\* the store after execute found no context for the session: untouched
ContextsAfterMiss(session_id) == contexts

\* variant: a booking that failed drops the context too
ContextsAfterFailureDropped(session_id) == Del(contexts, session_id)

\* the store after book_appointment returned an error: the del is skipped
ContextsAfterFailure(session_id) == contexts

\* variant: a booking empties the store
ContextsAfterBookingAllCleared(session_id) == EmptyDict

\* variant: the context is kept after the booking
ContextsAfterBookingKept(session_id) == contexts

\* the store after a successful booking: del _booking_contexts[session_id]
ContextsAfterBooking(session_id) == Del(contexts, session_id)

\* calendar_service.create_appointment: the event is created (by the API, or
\* simulated when no API is configured); the API raises HttpError and a
\* simulated event is returned instead; any other exception reaches
\* book_appointment
CalendarOutcomes == {"created", "simulated_after_error", "failed"}

\* email_service.send_appointment_confirmation returns whether the customer
\* mail was sent; book_appointment does not read the value
MailOutcomes == {"sent", "failed"}

\* calendar_event['event_id'] != 'calendar_error'
CalendarCreated(calendar) == calendar # "failed"

\* email_sent: the service provider notification that follows the customer
\* mail is a method EmailService does not have, so the except branch runs
EmailSent(mail) == FALSE

\* variant: the window of the booked technician is taken out of the rows
SlotsWithoutBooked(slots, work_order) ==
    SelectSeq(slots, LAMBDA slot :
        ~(/\ slot.technician_id = work_order.assigned_technician_id
          /\ slot.available_start_time <= work_order.scheduled_date_time
          /\ slot.available_end_time > work_order.scheduled_date_time))

\* _availability_slots after book_appointment: create_work_order stores the
\* order and nothing writes the rows
SlotsAfterBooking(slots, work_order) == slots

\* what execute does with the result of book_appointment: the error is
\* returned and nothing changes, or the work order is stored (uuid4 picks its
\* id; the calendar call and the customer mail end one way or another) and the
\* context is deleted
Commit(session_id, attempt, check, work_order) ==
    IF check # "ok" THEN
        /\ last' = [attempt EXCEPT !.status = "error", !.outcome = check]
        /\ contexts' = ContextsAfterFailure(session_id)
        /\ UNCHANGED <<now, work_orders, booked, availability_slots>>
    ELSE
        \E work_order_id \in WorkOrderIds, calendar \in CalendarOutcomes, mail \in MailOutcomes :
            /\ work_orders' = Put(work_orders, work_order_id,
                                  [work_order EXCEPT !.work_order_id = work_order_id])
            /\ contexts' = ContextsAfterBooking(session_id)
            /\ booked' = booked \cup {session_id}
            /\ last' = [attempt EXCEPT
                          !.status = "success",
                          !.outcome = "booking_confirmed",
                          !.work_order_id = work_order_id,
                          !.calendar = calendar,
                          !.email = mail,
                          !.calendar_created = CalendarCreated(calendar),
                          !.email_sent = EmailSent(mail)]
            /\ availability_slots' = SlotsAfterBooking(availability_slots, work_order)
            /\ UNCHANGED now

\* the call of book_appointment with the context's fields, the reconciled
\* text and the context's technician
BookFromContext(session_id, call, context, final_datetime, technician_id) ==
    Commit(session_id,
           [call EXCEPT !.context = context,
                        !.final_datetime = final_datetime,
                        !.technician_id = technician_id,
                        !.scheduled_dt = ParseScheduledMemo[final_datetime].value],
           BookingCheck(context.customer_id, context.property_id,
                        context.service_type, final_datetime, technician_id),
           NewWorkOrder(None, context.customer_id, context.property_id,
                        context.service_type, context.problem_description,
                        final_datetime, technician_id, context.urgency))

execute_booking_from_context(session_id, confirmed_datetime, user_confirmation) ==
    LET call == [Call("execute_booking_from_context", session_id, "-", "-")
                    EXCEPT !.confirmed_datetime = confirmed_datetime,
                           !.user_confirmation = user_confirmation]
    IN
    IF ~IsConfirmationMemo[user_confirmation] THEN
        /\ last' = [call EXCEPT !.status = "info", !.outcome = "not_confirmation"]
        /\ UNCHANGED <<now, contexts, work_orders, booked, availability_slots>>
    ELSE IF session_id \notin DOMAIN contexts THEN
        /\ last' = [call EXCEPT !.status = "error", !.outcome = "no_context"]
        /\ contexts' = ContextsAfterMiss(session_id)
        /\ UNCHANGED <<now, work_orders, booked, availability_slots>>
    ELSE
        BookFromContext(session_id, call, contexts[session_id],
                        FinalDatetime(contexts[session_id], confirmed_datetime),
                        BookingTechnician(contexts[session_id]))

(***************************************************************************)
(* execute_booking_from_context and book_appointment step by step: the     *)
(* call runs from one await to the next, and another call of the event     *)
(* loop can run in between.                                                *)
(***************************************************************************)
\* the record of a side effect that was dispatched
Effect(kind, outcome) == [kind |-> kind, outcome |-> outcome]

\* the log after call t dispatched one more side effect
Dispatched(t, kind, outcome) ==
    [effects EXCEPT ![t] = Append(@, Effect(kind, outcome))]

\* tasks[t] = ...
Resume(t, pc, call) == [tasks EXCEPT ![t] = [pc |-> pc, call |-> call]]

\* the call returns to the agent
Return(t, call) ==
    /\ tasks' = Resume(t, "returned", call)
    /\ last' = call

\* execute up to the first await of book_appointment: the confirmation check,
\* the lookup of the context, the reconciliation and the parsing and range
\* checks of the text
execute_begin(t, session_id, confirmed_datetime, user_confirmation) ==
    LET call == [Call("execute_booking_from_context", session_id, "-", "-")
                    EXCEPT !.confirmed_datetime = confirmed_datetime,
                           !.user_confirmation = user_confirmation]
    IN
    /\ tasks[t].pc = "idle"
    /\ IF ~IsConfirmationMemo[user_confirmation] THEN
           Return(t, [call EXCEPT !.status = "info", !.outcome = "not_confirmation"])
       ELSE IF session_id \notin DOMAIN contexts THEN
           Return(t, [call EXCEPT !.status = "error", !.outcome = "no_context"])
       ELSE
           /\ tasks' = Resume(t, "booking",
                  [call EXCEPT
                     !.context = contexts[session_id],
                     !.final_datetime = FinalDatetime(contexts[session_id], confirmed_datetime),
                     !.technician_id = BookingTechnician(contexts[session_id]),
                     !.scheduled_dt =
                         ParseScheduledMemo[FinalDatetime(contexts[session_id],
                                                          confirmed_datetime)].value])
           /\ UNCHANGED last
    /\ UNCHANGED <<now, contexts, work_orders, booked, availability_slots, effects,
                   active_sessions, connections>>

\* what the checks of book_appointment answer for the call
CheckOf(call) ==
    BookingCheck(call.context.customer_id, call.context.property_id,
                 call.context.service_type, call.final_datetime, call.technician_id)

\* book_appointment from its first await to the end of the final check: the
\* lookups of the service, the customer, the facility and the technician and
\* the search of the free windows
book_check(t, check) ==
    /\ tasks[t].pc = "booking"
    /\ IF check # "ok" THEN
           Return(t, [tasks[t].call EXCEPT !.status = "error", !.outcome = check])
       ELSE
           /\ tasks' = Resume(t, "checked", tasks[t].call)
           /\ UNCHANGED last
    /\ UNCHANGED <<now, contexts, work_orders, booked, availability_slots, effects,
                   active_sessions, connections>>

\* the work order of the call
WorkOrderOf(call, work_order_id) ==
    NewWorkOrder(work_order_id, call.context.customer_id, call.context.property_id,
                 call.context.service_type, call.context.problem_description,
                 call.final_datetime, call.technician_id, call.context.urgency)

\* await data_service.create_work_order(work_order), under the id uuid4 drew
create_work_order(t) ==
    /\ tasks[t].pc = "checked"
    /\ \E work_order_id \in WorkOrderIds :
           /\ work_orders' = Put(work_orders, work_order_id,
                                 WorkOrderOf(tasks[t].call, work_order_id))
           /\ effects' = Dispatched(t, "work_order", work_order_id)
           /\ tasks' = Resume(t, "persisted",
                              [tasks[t].call EXCEPT !.work_order_id = work_order_id])
    /\ UNCHANGED <<now, contexts, last, booked, availability_slots,
                   active_sessions, connections>>

\* variant: the calendar entry is made before the work order is stored
EffectsCalendarFirst(t, calendar) ==
    [effects EXCEPT ![t] = <<Effect("calendar", calendar)>> \o @]

\* the log after calendar_service.create_appointment was awaited
EffectsAfterCalendar(t, calendar) == Dispatched(t, "calendar", calendar)

\* await calendar_service.create_appointment(...) inside its try
create_appointment(t) ==
    /\ tasks[t].pc = "persisted"
    /\ \E calendar \in CalendarOutcomes :
           /\ effects' = EffectsAfterCalendar(t, calendar)
           /\ tasks' = Resume(t, "calendar_done",
                  [tasks[t].call EXCEPT !.calendar = calendar,
                                        !.calendar_created = CalendarCreated(calendar)])
    /\ UNCHANGED <<now, contexts, work_orders, last, booked, availability_slots,
                   active_sessions, connections>>

\* the end of execute after book_appointment returned success: the context of
\* the session is deleted; when another call deleted it in the meantime the
\* del raises KeyError and the except branch of execute answers
Finish(t, call) ==
    IF call.session_id \in DOMAIN contexts THEN
        /\ contexts' = ContextsAfterBooking(call.session_id)
        /\ booked' = booked \cup {call.session_id}
        /\ Return(t, [call EXCEPT !.status = "success", !.outcome = "booking_confirmed"])
    ELSE
        /\ Return(t, [call EXCEPT !.status = "error", !.outcome = "failed_to_execute"])
        /\ UNCHANGED <<contexts, booked>>

\* await email_service.send_appointment_confirmation(...) inside its try, then
\* the result is built and execute goes on to its end without another await
send_appointment_confirmation(t) ==
    /\ tasks[t].pc = "calendar_done"
    /\ \E mail \in MailOutcomes :
           /\ effects' = Dispatched(t, "email", mail)
           /\ Finish(t, [tasks[t].call EXCEPT !.email = mail,
                                              !.email_sent = EmailSent(mail)])
    /\ UNCHANGED <<now, work_orders, availability_slots, active_sessions, connections>>

(***************************************************************************)
(* scheduling.py: check_technician_availability                            *)
(***************************************************************************)
\* date.weekday(): Monday is 0; 1970-01-01 was a Thursday
weekday(date) == (date + 3) % 7

\* variant: the day after the working week is taken to be the Sunday
IsSunday(date) == weekday(date) = 6

\* alt_date.weekday() == 4
IsFriday(date) == weekday(date) = 4

\* s.split(): the words between runs of blanks
Words(s) == SelectSeq(Split(s, " "), LAMBDA w : w # "")

\* the first service whose name contains service_type, else the first whose
\* name contains one of the words of service_type; 0 if none
FindServiceByName(service_type) ==
    LET whole == {i \in 1..Len(ServiceTypes) :
                     Contains(Lower(ServiceTypes[i].service_name), Lower(service_type))}
        partial == {i \in 1..Len(ServiceTypes) :
                       \E word \in SeqToSet(Words(Lower(service_type))) :
                           Contains(Lower(ServiceTypes[i].service_name), word)}
        hits == IF whole # {} THEN whole ELSE partial
    IN  IF hits = {} THEN 0 ELSE CHOOSE i \in hits : \A j \in hits : i <= j

FindServiceByNameMemo ==
    [service_type \in ServiceTexts |-> FindServiceByName(service_type)]

\* int(text) for an unsigned decimal numeral
IntOf(text) == IF AllDigits(text) THEN Parsed(ParseInt(text)) ELSE ParseError

\* request_date.replace(hour=h, minute=m)
ReplaceHourMinute(request_date, h, m) ==
    IF h.ok /\ m.ok /\ h.value < 24 /\ m.value < 60
    THEN Parsed(Instant(DateOf(request_date), HMS(h.value, m.value, 0)))
    ELSE ParseError

\* request_datetime from preferred_time.split(":")
RequestDatetime(request_date, time_parts) ==
    ReplaceHourMinute(request_date, IntOf(time_parts[1]),
                      IF Len(time_parts) > 1 THEN IntOf(time_parts[2]) ELSE Parsed(0))

\* variant: the lunch hour is probed as well
time_slots_with_noon == <<9, 10, 11, 12, 14, 15, 16, 17>>

\* time_slots: the business hours probed on every alternative day
time_slots == <<9, 10, 11, 14, 15, 16, 17>>

\* range(1, 8): the days after the request date that are searched
LastDayAhead == 7

\* "Limit to 6 real alternatives max"
MaxAlternatives == 6

\* available_slots[:5]
MaxRecommended == 5

\* variant: the probe only asks who is free at the start of the visit
find_slots_at_start(slots, service, area_zone, alt_datetime) ==
    find_available_technicians(slots, service.required_skills, area_zone, alt_datetime, 0)

\* the probe of one candidate instant, the same search as for the exact request
find_alternative_slots(slots, service, area_zone, alt_datetime) ==
    find_available_technicians(slots, service.required_skills, area_zone,
                               alt_datetime, service.estimated_duration)

\* request_date + timedelta(days=days_ahead)
PlusDays(request_date, days_ahead) == request_date + days_ahead * SecondsPerDay

\* alt_date.replace(hour=hour, minute=0)
AtHour(alt_date, hour) == Instant(DateOf(alt_date), HMS(hour, 0, TimeOf(alt_date) % 60))

\* best_technician
best_technician(alt_slots) == alt_slots[1]

\* the entry appended to genuine_alternatives
Alternative(alt_date, alt_datetime, technician, count) ==
    [date |-> DateIso(DateOf(alt_date)),
     time |-> SubSeq(TimeIso(TimeOf(alt_datetime)), 1, 5),
     datetime_iso |-> isoformat(alt_datetime),
     technician_id |-> technician.technician_id,
     technician_name |-> technician.technician_name,
     available_technicians_count |-> count]

\* genuine_alternatives after the probe of one hour
AfterProbe(alternatives, alt_date, alt_datetime, alt_slots) ==
    IF Len(alt_slots) > 0
    THEN Append(alternatives,
                Alternative(alt_date, alt_datetime, best_technician(alt_slots), Len(alt_slots)))
    ELSE alternatives

\* the loop over time_slots for one day, from the i-th hour on; it is left
\* only at its end or when the limit is reached
RECURSIVE ProbeHours(_, _, _, _, _, _, _)
ProbeHours(alternatives, slots, service, area_zone, time, alt_date, i) ==
    IF i > Len(time_slots) \/ Len(alternatives) >= MaxAlternatives THEN alternatives
    ELSE IF DateOf(alt_date) = DateOf(time) /\ AtHour(alt_date, time_slots[i]) <= time
         THEN ProbeHours(alternatives, slots, service, area_zone, time, alt_date, i + 1)
    ELSE ProbeHours(AfterProbe(alternatives, alt_date, AtHour(alt_date, time_slots[i]),
                               find_alternative_slots(slots, service, area_zone,
                                   AtHour(alt_date, time_slots[i]))),
                    slots, service, area_zone, time, alt_date, i + 1)

\* the loop over days_ahead
RECURSIVE SearchDays(_, _, _, _, _, _, _)
SearchDays(alternatives, slots, service, area_zone, time, request_date, days_ahead) ==
    IF days_ahead > LastDayAhead \/ Len(alternatives) >= MaxAlternatives THEN alternatives
    ELSE IF IsFriday(DateOf(PlusDays(request_date, days_ahead)))
         THEN SearchDays(alternatives, slots, service, area_zone, time,
                         request_date, days_ahead + 1)
    ELSE SearchDays(ProbeHours(alternatives, slots, service, area_zone, time,
                               PlusDays(request_date, days_ahead), 1),
                    slots, service, area_zone, time, request_date, days_ahead + 1)

\* genuine_alternatives
genuine_alternatives(slots, service, area_zone, time, request_date) ==
    SearchDays(<< >>, slots, service, area_zone, time, request_date, 1)

\* variant: every slot found is recommended
every_slot(available_slots) == available_slots

\* formatted_slots
formatted_slots(available_slots) ==
    SubSeq(available_slots, 1,
           IF Len(available_slots) < MaxRecommended THEN Len(available_slots)
           ELSE MaxRecommended)

\* the record of a check_technician_availability call and its result
Checked(query, status, outcome) ==
    [op |-> "check_technician_availability", query |-> query,
     status |-> status, outcome |-> outcome,
     service |-> 0, requested_datetime |-> -1,
     exact_match |-> FALSE, available_slots_count |-> 0,
     recommended_slots |-> << >>,
     lists_alternatives |-> FALSE, genuine_alternatives |-> << >>]

\* the result when the exact search found slots
ExactResult(query, svc, request_datetime, available_slots) ==
    [Checked(query, "success", "available") EXCEPT
        !.service = svc,
        !.requested_datetime = request_datetime,
        !.exact_match = TRUE,
        !.available_slots_count = Len(available_slots),
        !.recommended_slots = formatted_slots(available_slots)]

\* variant: an empty list of alternatives is reported as an error
AlternativesOrError(query, svc, request_datetime, alternatives) ==
    [Checked(query, IF Len(alternatives) > 0 THEN "success" ELSE "error",
             IF Len(alternatives) > 0 THEN "alternatives" ELSE "no_availability") EXCEPT
        !.service = svc,
        !.requested_datetime = request_datetime,
        !.lists_alternatives = TRUE,
        !.genuine_alternatives = alternatives]

\* the result when it found none: the alternatives, or an empty list of them
AlternativesResult(query, svc, request_datetime, alternatives) ==
    [Checked(query, "success",
             IF Len(alternatives) > 0 THEN "alternatives" ELSE "no_availability") EXCEPT
        !.service = svc,
        !.requested_datetime = request_datetime,
        !.lists_alternatives = TRUE,
        !.genuine_alternatives = alternatives]

\* the branch on available_slots
SearchResult(query, slots, time, svc, request_date, request_datetime, available_slots) ==
    IF Len(available_slots) > 0
    THEN ExactResult(query, svc, request_datetime, available_slots)
    ELSE AlternativesResult(query, svc, request_datetime,
                            genuine_alternatives(slots, ServiceTypes[svc], query.area_zone,
                                                 time, request_date))

\* from the parsed time on
CheckFromTime(query, slots, time, svc, request_date, request_datetime) ==
    IF ~request_datetime.ok THEN Checked(query, "error", "invalid_time")
    ELSE IF request_datetime.value < time THEN Checked(query, "error", "past_time")
    ELSE SearchResult(query, slots, time, svc, request_date, request_datetime.value,
                      find_available_technicians(slots, ServiceTypes[svc].required_skills,
                                                 query.area_zone, request_datetime.value,
                                                 ServiceTypes[svc].estimated_duration))

\* from the parsed date on
CheckFromDate(query, slots, time, request_date, svc) ==
    IF ~request_date.ok THEN Checked(query, "error", "invalid_date")
    ELSE IF DateOf(request_date.value) < DateOf(time) THEN Checked(query, "error", "past_date")
    ELSE IF YearOf(request_date.value) < 2025 \/ YearOf(request_date.value) > 2026
         THEN Checked(query, "error", "invalid_year")
    ELSE IF svc = 0 THEN Checked(query, "error", "service_not_found")
    ELSE CheckFromTime(query, slots, time, svc, request_date.value,
                       RequestDatetime(request_date.value, Split(query.preferred_time, ":")))

\* what check_technician_availability returns at clock reading time on the
\* availability rows slots
CheckAvailability(query, slots, time) ==
    CheckFromDate(query, slots, time, strptime_ymd(query.preferred_date),
                  FindServiceByNameMemo[query.service_type])

(***************************************************************************)
(* datetime_parser.py: parse_user_datetime                                 *)
(***************************************************************************)
\* current_year = 2025
CurrentYear == 2025

\* datetime(y, m, d), or the ValueError
CivilDate(y, m, d) ==
    IF y >= 1 /\ m \in 1..12 /\ d >= 1 /\ d <= DaysInMonth(y, m)
    THEN Parsed(DaysFromCivil(y, m, d))
    ELSE ParseError

\* date.replace(year = year), or the ValueError
ReplaceYear(date, year) ==
    CivilDate(year, CivilFromDays(date).month, CivilFromDays(date).day)

\* result["parsed_date"] and whether result["date_adjusted"] is set; literal is
\* the date as the text wrote it, when it wrote a year
Dated(date, adjusted, literal) ==
    [ok |-> TRUE, value |-> date, adjusted |-> adjusted, literal |-> literal]
Undated(literal) ==
    [ok |-> FALSE, value |-> 0, adjusted |-> FALSE, literal |-> literal]

\* re.match(r'\d{4}-\d{2}-\d{2}', s)
IsoPrefix(s) ==
    /\ Len(s) >= 10
    /\ AllDigits(SubSeq(s, 1, 4)) /\ CharAt(s, 5) = "-"
    /\ AllDigits(SubSeq(s, 6, 7)) /\ CharAt(s, 8) = "-"
    /\ AllDigits(SubSeq(s, 9, 10))

\* s.split()[0] of a text that does not start with whitespace
RECURSIVE FirstWord(_)
FirstWord(s) ==
    IF Len(s) = 0 \/ IsSpace(CharAt(s, 1)) THEN ""
    ELSE CharAt(s, 1) \o FirstWord(SubSeq(s, 2, Len(s)))

\* pattern 1: a past date of a year before current_year is put into
\* current_year, or into the year after it when that is still in the past; a
\* past date of current_year or later is kept
RollIso(parsed, today) ==
    IF ~parsed.ok THEN Undated(parsed)
    ELSE IF parsed.value >= today \/ CivilFromDays(parsed.value).year >= CurrentYear
    THEN Dated(parsed.value, FALSE, parsed)
    ELSE IF ~ReplaceYear(parsed.value, CurrentYear).ok THEN Undated(parsed)
    ELSE IF ReplaceYear(parsed.value, CurrentYear).value >= today
    THEN Dated(ReplaceYear(parsed.value, CurrentYear).value, TRUE, parsed)
    ELSE Dated(ReplaceYear(parsed.value, CurrentYear + 1).value, TRUE, parsed)

\* the matches of \d{1,2}/\d{1,2}/\d{4} in s
SlashMatches(s) ==
    { m \in [start : 1..Len(s), first : {1, 2}, second : {1, 2}] :
        /\ m.start + m.first + m.second + 5 <= Len(s)
        /\ AllDigits(SubSeq(s, m.start, m.start + m.first - 1))
        /\ CharAt(s, m.start + m.first) = "/"
        /\ AllDigits(SubSeq(s, m.start + m.first + 1, m.start + m.first + m.second))
        /\ CharAt(s, m.start + m.first + m.second + 1) = "/"
        /\ AllDigits(SubSeq(s, m.start + m.first + m.second + 2,
                            m.start + m.first + m.second + 5)) }

\* re.search(...).group(): the leftmost match, the longer runs of digits first
FirstSlashMatch(matches) ==
    CHOOSE m \in matches :
        \A o \in matches :
            \/ m.start < o.start
            \/ m.start = o.start /\ m.first > o.first
            \/ m.start = o.start /\ m.first = o.first /\ m.second >= o.second

\* the three numbers of the date part
SlashFields(s, m) ==
    [first |-> ParseInt(SubSeq(s, m.start, m.start + m.first - 1)),
     second |-> ParseInt(SubSeq(s, m.start + m.first + 1, m.start + m.first + m.second)),
     year |-> ParseInt(SubSeq(s, m.start + m.first + m.second + 2,
                              m.start + m.first + m.second + 5))]

\* pattern 2, one reading of the date part: a year before current_year
\* becomes current_year, and a date then in the past moves to the year after
\* current_year; a ValueError on the way gives up the reading
RollSlashed(parsed, in_year, today) ==
    IF ~parsed.ok \/ ~in_year.ok THEN Undated(parsed)
    ELSE IF in_year.value < today
    THEN IF ReplaceYear(in_year.value, CurrentYear + 1).ok
         THEN Dated(ReplaceYear(in_year.value, CurrentYear + 1).value, TRUE, parsed)
         ELSE Undated(parsed)
    ELSE Dated(in_year.value, in_year.value # parsed.value, parsed)

\* parsed_date.replace(year = current_year) if parsed_date.year < current_year
InCurrentYear(parsed) ==
    IF parsed.ok /\ CivilFromDays(parsed.value).year < CurrentYear
    THEN ReplaceYear(parsed.value, CurrentYear)
    ELSE parsed

\* "%m/%d/%Y" first, "%d/%m/%Y" when that raised
FirstReading(month_first, day_first) ==
    IF month_first.ok THEN month_first ELSE day_first

Slashed(fields, today) ==
    FirstReading(
        RollSlashed(CivilDate(fields.year, fields.first, fields.second),
                    InCurrentYear(CivilDate(fields.year, fields.first, fields.second)),
                    today),
        RollSlashed(CivilDate(fields.year, fields.second, fields.first),
                    InCurrentYear(CivilDate(fields.year, fields.second, fields.first)),
                    today))

\* the alternatives of the month pattern in the order the engine tries them
MonthNames ==
    <<"january", "february", "march", "april", "may", "june", "july", "august",
      "september", "october", "november", "december",
      "jan", "feb", "mar", "apr", "may", "jun", "jul", "aug", "sep", "oct",
      "nov", "dec">>

\* month_mapping of the k-th alternative
MonthNumber(k) == IF k <= 12 THEN k ELSE k - 12

MonthMatches(s) ==
    { m \in [start : 1..Len(s), name : DOMAIN MonthNames] :
        /\ m.start + Len(MonthNames[m.name]) - 1 <= Len(s)
        /\ SubSeq(s, m.start, m.start + Len(MonthNames[m.name]) - 1) = MonthNames[m.name] }

FirstMonthMatch(matches) ==
    CHOOSE m \in matches :
        \A o \in matches :
            m.start < o.start \/ (m.start = o.start /\ m.name <= o.name)

\* re.search(r'(\d{1,2})', s): the first digit and the digit after it
DayDigits(s) ==
    IF \A i \in 1..Len(s) : ~IsDigit(CharAt(s, i)) THEN ""
    ELSE LET i == CHOOSE i \in 1..Len(s) :
                      /\ IsDigit(CharAt(s, i))
                      /\ \A j \in 1..(i - 1) : ~IsDigit(CharAt(s, j))
         IN  IF i < Len(s) /\ IsDigit(CharAt(s, i + 1))
             THEN SubSeq(s, i, i + 1) ELSE CharAt(s, i)

\* pattern 3: the day in current_year, or in the year after it when that day
\* is in the past
MonthNamed(this_year, next_year, today) ==
    IF ~this_year.ok THEN Undated(ParseError)
    ELSE IF this_year.value >= today THEN Dated(this_year.value, FALSE, ParseError)
    ELSE IF next_year.ok THEN Dated(next_year.value, TRUE, ParseError)
    ELSE Undated(ParseError)

MonthAndDay(month_num, day_digits, today) ==
    IF day_digits = "" THEN Undated(ParseError)
    ELSE MonthNamed(CivilDate(CurrentYear, month_num, ParseInt(day_digits)),
                    CivilDate(CurrentYear + 1, month_num, ParseInt(day_digits)),
                    today)

\* days_ahead = 7 - now.weekday()
NextWeek(today) == today + (7 - weekday(today))

\* the first day of the month after now.month, in current_year, or of
\* January of the year after current_year
NextMonth(today) ==
    IF CivilFromDays(today).month = 12
    THEN DaysFromCivil(CurrentYear + 1, 1, 1)
    ELSE DaysFromCivil(CurrentYear, CivilFromDays(today).month + 1, 1)

\* pattern 4
Relative(s, today) ==
    IF Contains(s, "tomorrow") THEN Dated(today + 1, FALSE, ParseError)
    ELSE IF Contains(s, "today") THEN Dated(today, FALSE, ParseError)
    ELSE IF Contains(s, "next week") THEN Dated(NextWeek(today), FALSE, ParseError)
    ELSE IF Contains(s, "next month") THEN Dated(NextMonth(today), FALSE, ParseError)
    ELSE Undated(ParseError)

\* the if/elif chain of the date patterns
ParsedDate(s, today) ==
    IF IsoPrefix(s) THEN RollIso(ParseDate(FirstWord(s)), today)
    ELSE IF SlashMatches(s) # {}
    THEN Slashed(SlashFields(s, FirstSlashMatch(SlashMatches(s))), today)
    ELSE IF MonthMatches(s) # {}
    THEN MonthAndDay(MonthNumber(FirstMonthMatch(MonthMatches(s)).name),
                     DayDigits(s), today)
    ELSE Relative(s, today)

\* the matches of (\d{1,2}):(\d{2}) in s, followed by \s*(am|pm) or not
ColonTimeMatches(s, meridiem) ==
    { m \in [start : 1..Len(s), digits : {1, 2}] :
        /\ m.start + m.digits + 2 <= Len(s)
        /\ AllDigits(SubSeq(s, m.start, m.start + m.digits - 1))
        /\ CharAt(s, m.start + m.digits) = ":"
        /\ AllDigits(SubSeq(s, m.start + m.digits + 1, m.start + m.digits + 2))
        /\ meridiem =>
              LET p == m.start + m.digits + 3 + SpaceRun(s, m.start + m.digits + 3)
              IN  p + 1 <= Len(s) /\ SubSeq(s, p, p + 1) \in {"am", "pm"} }

\* the matches of (\d{1,2})\s*(am|pm) in s
HourMeridiemMatches(s) ==
    { m \in [start : 1..Len(s), digits : {1, 2}] :
        /\ m.start + m.digits - 1 <= Len(s)
        /\ AllDigits(SubSeq(s, m.start, m.start + m.digits - 1))
        /\ LET p == m.start + m.digits + SpaceRun(s, m.start + m.digits)
           IN  p + 1 <= Len(s) /\ SubSeq(s, p, p + 1) \in {"am", "pm"} }

FirstTimeMatch(matches) ==
    CHOOSE m \in matches :
        \A o \in matches :
            m.start < o.start \/ (m.start = o.start /\ m.digits >= o.digits)

\* f"{hour:02d}:{minute:02d}" of the 24-hour branch
ClockText(s, m) ==
    Format02d(ParseInt(SubSeq(s, m.start, m.start + m.digits - 1))) \o ":"
        \o Format02d(ParseInt(SubSeq(s, m.start + m.digits + 1, m.start + m.digits + 2)))

\* the loop over time_patterns: "raised" when a pattern matches and the text
\* holds "am" or "pm" (time_match.group(-1) is an IndexError), the 24-hour
\* time when the third pattern matches, None when no pattern matches
ParsedTime(s) ==
    IF /\ \/ ColonTimeMatches(s, TRUE) # {}
          \/ HourMeridiemMatches(s) # {}
          \/ ColonTimeMatches(s, FALSE) # {}
       /\ (Contains(s, "am") \/ Contains(s, "pm"))
    THEN "raised"
    ELSE IF ColonTimeMatches(s, FALSE) # {}
    THEN ClockText(s, FirstTimeMatch(ColonTimeMatches(s, FALSE)))
    ELSE None

SuggestedTimes == <<"09:00", "10:00", "11:00", "14:00", "15:00", "16:00">>

\* the dictionary parse_user_datetime returns; example is the date the
\* message gives as an example
ParseResult(user_input, date, time, today) ==
    [op |-> "parse_user_datetime", user_input |-> user_input, today |-> today,
     status |-> IF time = "raised" THEN "error"
                ELSE IF date.ok THEN "success" ELSE "needs_clarification",
     parsed_date |-> IF time = "raised" THEN Undated(date.literal) ELSE date,
     formatted_time |-> IF time = "raised" THEN None ELSE time,
     suggested_times |-> IF time = None THEN SuggestedTimes ELSE << >>,
     example |-> IF time # "raised" /\ ~date.ok THEN Parsed(today + 1) ELSE ParseError]

parse_user_datetime(user_input) ==
    /\ last' = ParseResult(user_input,
                           ParsedDate(Lower(Strip(user_input)), DateOf(now)),
                           ParsedTime(Lower(Strip(user_input))),
                           DateOf(now))
    /\ UNCHANGED <<now, contexts, work_orders, booked, availability_slots>>

(***************************************************************************)
(* Specification                                                           *)
(***************************************************************************)
Next ==
    /\ \/ \E sid \in Sessions, req \in Requests :
              store_booking_context(sid, req)
       \/ \E sid \in Sessions, tech \in OfferedTechnicians, checked \in CheckedTexts :
              update_booking_context(sid, tech, checked)
       \/ \E sid \in Sessions, pref \in PreferredTexts, alts \in AlternativeTexts :
              update_preferred_date(sid, pref, alts)
       \/ \E sid \in Sessions : get_booking_context(sid)
       \/ \E sid \in Sessions : clear_booking_context(sid)
       \/ \E msg \in UserMessages : detect_booking_confirmation(msg)
       \/ \E sid \in Sessions, confirmed \in ConfirmedTexts, msg \in UserMessages :
              execute_booking_from_context(sid, confirmed, msg)
    /\ UNCHANGED in_flight

Spec == Init /\ [][Next]_vars

\* two conversations at once: every tool call runs to its end before the next
\* one starts, in any order of the two sessions
ConcurrentSessions == {"s1", "s2"}
IsolationRequests == {req \in Requests : req.customer_id \in Customers}
IsolationTechnicians == {tech \in OfferedTechnicians : tech.id = "TECH001"}
IsolationCheckedTexts == {"2025-06-02T14:00:00"}
IsolationConfirmedTexts == {"2025-06-02T14:00:00"}
IsolationMessages == {"Yes"}

IsolationNext ==
    /\ \/ \E sid \in ConcurrentSessions, req \in IsolationRequests :
              store_booking_context(sid, req)
       \/ \E sid \in ConcurrentSessions, tech \in IsolationTechnicians,
             checked \in IsolationCheckedTexts :
              update_booking_context(sid, tech, checked)
       \/ \E sid \in ConcurrentSessions, pref \in PreferredTexts :
              update_preferred_date(sid, pref, "")
       \/ \E sid \in ConcurrentSessions : get_booking_context(sid)
       \/ \E sid \in ConcurrentSessions : clear_booking_context(sid)
       \/ \E sid \in ConcurrentSessions, confirmed \in IsolationConfirmedTexts,
             msg \in IsolationMessages :
              execute_booking_from_context(sid, confirmed, msg)
    /\ UNCHANGED in_flight
IsolationSpec == Init /\ [][IsolationNext]_vars

\* two execute calls on the event loop: each runs from one await to the next
CommitConfirmedTexts == {"2025-06-02T14:00:00", "2027-01-04T14:00:00"}
CommitMessages == {"Yes", "no"}

\* the context of a conversation that was offered TECH001 on 2025-06-02 at 14:00
OfferedContext ==
    [NewContext(CHOOSE req \in IsolationRequests : TRUE) EXCEPT
        !.preferred_technician_id = "TECH001",
        !.preferred_technician_name = "Ahmed",
        !.last_checked_datetime = "2025-06-02T14:00:00",
        !.original_requested_date = "2025-06-02T14:00:00",
        !.current_preferred_date = "2025-06-02T14:00:00"]

\* the calls start in a conversation that has its offer, or in one that has
\* not stored a request yet
CommitInit ==
    /\ NothingInFlight
    /\ now = Instant(DaysFromCivil(2025, 6, 1), HMS(8, 0, 0))
    /\ contexts \in {EmptyDict, Put(EmptyDict, "s1", OfferedContext)}
    /\ work_orders = EmptyDict
    /\ last = Call("start", Absent, "-", "-")
    /\ booked = {}
    /\ availability_slots = AvailabilitySlots

CommitNext ==
    \/ \E t \in Tasks, sid \in Sessions, confirmed \in CommitConfirmedTexts,
          msg \in CommitMessages :
           execute_begin(t, sid, confirmed, msg)
    \/ \E t \in Tasks : book_check(t, CheckOf(tasks[t].call))
    \/ \E t \in Tasks : create_work_order(t)
    \/ \E t \in Tasks : create_appointment(t)
    \/ \E t \in Tasks : send_appointment_confirmation(t)

CommitSpec == CommitInit /\ [][CommitNext]_vars

\* two conversations whose requests, technicians and confirmed texts make
\* every check of the booking fail in turn
FailureRequests == Requests \cup UnknownRequests
FailureTechnicians == OfferedTechnicians \cup {[id |-> "TECH999", name |-> "Nobody"]}
FailureConfirmedTexts == {"2025-06-02T14:00:00", "2027-01-04T14:00:00", "2 pm"}
FailureMessages == {"Yes", "no"}

FailureNext ==
    /\ \/ \E sid \in ConcurrentSessions, req \in FailureRequests :
              store_booking_context(sid, req)
       \/ \E sid \in ConcurrentSessions, tech \in FailureTechnicians,
             checked \in IsolationCheckedTexts :
              update_booking_context(sid, tech, checked)
       \/ \E sid \in ConcurrentSessions, confirmed \in FailureConfirmedTexts,
             msg \in FailureMessages :
              execute_booking_from_context(sid, confirmed, msg)
    /\ UNCHANGED in_flight
FailureSpec == Init /\ [][FailureNext]_vars

\* the date parser on its own, on the days the clock can show
ParseDays ==
    { DaysFromCivil(2025, 6, 9), DaysFromCivil(2025, 6, 10), DaysFromCivil(2025, 6, 15),
      DaysFromCivil(2025, 12, 15), DaysFromCivil(2026, 3, 1), DaysFromCivil(2026, 11, 5),
      DaysFromCivil(2026, 12, 31) }
ParseTexts ==
    { "2025-06-01", "2025-06-20", "2024-12-25", "2024-02-29", "2026-03-01",
      "2025-06-20 14:30", "06/01/2025", "25/12/2024", "13/01/2026",
      "January 28th", "dec 5", "June 1 at 14:30", "Tomorrow", "today",
      "tomorrow at 3 pm", "tomorrow 9:05", "next week", "next month",
      "next week 10:30 am", "sometime soon", "at 9", "3pm", "" }

ParseInit ==
    /\ NothingInFlight
    /\ now \in {Instant(day, HMS(10, 0, 0)) : day \in ParseDays}
    /\ contexts = EmptyDict
    /\ work_orders = EmptyDict
    /\ last = Call("start", Absent, "-", "-")
    /\ booked = {}
    /\ availability_slots = AvailabilitySlots
ParseNext ==
    /\ \E text \in ParseTexts : parse_user_datetime(text)
    /\ UNCHANGED in_flight
ParseSpec == ParseInit /\ [][ParseNext]_vars

\* the confirmation detector on its own: one call per turn on the turn's text
DetectNext ==
    /\ \E msg \in DetectMessages : detect_booking_confirmation(msg)
    /\ UNCHANGED in_flight
DetectSpec == Init /\ [][DetectNext]_vars

(***************************************************************************)
(* The availability search on its own: the rows of availability.csv and    *)
(* the clock reading are drawn at the start, then the search is called     *)
(* with arguments drawn from the samples.                                  *)
(***************************************************************************)
\* the clock readings of the runs: the Sunday before, and the Monday afternoon
CheckTimes ==
    { Instant(Day(-1), HMS(8, 0, 0)), Instant(Day(0), HMS(15, 0, 0)) }

\* arguments of check_technician_availability
DateTexts == {"2025-06-02", "2025-06-05", "2025-05-30", "02/06/2025"}
TimeTexts == {"11:00", "14:00", "17", "2pm"}

Query(service_type, area_zone, preferred_date, preferred_time) ==
    [service_type |-> service_type, area_zone |-> area_zone,
     preferred_date |-> preferred_date, preferred_time |-> preferred_time]

\* arguments of find_available_technicians
InstantSamples == {Instant(Day(0), HMS(h, 0, 0)) : h \in {8, 11, 14, 17}}
DurationSamples == {60, 120}

Search(required_skills, zone, requested_datetime, duration_minutes) ==
    [required_skills |-> required_skills, zone |-> zone,
     requested_datetime |-> requested_datetime, duration_minutes |-> duration_minutes]

\* the record of a find_available_technicians call and its result
Found(search, available_slots) ==
    [op |-> "find_available_technicians", search |-> search,
     available_slots |-> available_slots]

\* the two searches, evaluated once for the sample arguments
CheckAvailabilityMemo ==
    [slots \in SlotData, time \in CheckTimes, service_type \in ServiceTexts,
     area_zone \in ZoneTexts, preferred_date \in DateTexts, preferred_time \in TimeTexts |->
        CheckAvailability(Query(service_type, area_zone, preferred_date, preferred_time),
                          slots, time)]

FindAvailableMemo ==
    [slots \in SlotData, required_skills \in SkillSamples, zone \in ZoneSamples,
     requested_datetime \in InstantSamples, duration_minutes \in DurationSamples |->
        Found(Search(required_skills, zone, requested_datetime, duration_minutes),
              find_available_technicians(slots, required_skills, zone,
                                         requested_datetime, duration_minutes))]

check_technician_availability(service_type, area_zone, preferred_date, preferred_time) ==
    /\ last' = CheckAvailabilityMemo[availability_slots, now, service_type, area_zone,
                                     preferred_date, preferred_time]
    /\ UNCHANGED <<now, contexts, work_orders, booked, availability_slots>>

data_service_find_available_technicians(required_skills, zone, requested_datetime, duration_minutes) ==
    /\ last' = FindAvailableMemo[availability_slots, required_skills, zone,
                                 requested_datetime, duration_minutes]
    /\ UNCHANGED <<now, contexts, work_orders, booked, availability_slots>>

AvailabilityInit ==
    /\ NothingInFlight
    /\ now \in CheckTimes
    /\ availability_slots \in SlotData
    /\ contexts = EmptyDict
    /\ work_orders = EmptyDict
    /\ last = Call("start", Absent, "-", "-")
    /\ booked = {}

AvailabilityNext ==
    /\ \/ \E service_type \in ServiceTexts, area_zone \in ZoneTexts,
             preferred_date \in DateTexts, preferred_time \in TimeTexts :
              check_technician_availability(service_type, area_zone,
                                            preferred_date, preferred_time)
       \/ \E required_skills \in SkillSamples, zone \in ZoneSamples,
             requested_datetime \in InstantSamples, duration_minutes \in DurationSamples :
              data_service_find_available_technicians(required_skills, zone,
                                                      requested_datetime, duration_minutes)
    /\ UNCHANGED in_flight

AvailabilitySpec == AvailabilityInit /\ [][AvailabilityNext]_vars

(***************************************************************************)
(* scheduling.py: book_appointment called with an offer of the check       *)
(***************************************************************************)
\* what book_appointment does after its checks: the error is returned, or
\* the work order is stored under the id uuid4 drew and the calendar call and
\* the mail end one way or the other
Book(call, check, work_order) ==
    IF check # "ok" THEN
        /\ last' = [call EXCEPT !.status = "error", !.outcome = check]
        /\ UNCHANGED <<work_orders, availability_slots>>
    ELSE
        \E work_order_id \in WorkOrderIds, calendar \in CalendarOutcomes, mail \in MailOutcomes :
            /\ work_orders' = Put(work_orders, work_order_id,
                                  [work_order EXCEPT !.work_order_id = work_order_id])
            /\ availability_slots' = SlotsAfterBooking(availability_slots, work_order)
            /\ last' = [call EXCEPT
                          !.status = "success",
                          !.outcome = "booking_confirmed",
                          !.work_order_id = work_order_id,
                          !.calendar = calendar,
                          !.email = mail,
                          !.calendar_created = CalendarCreated(calendar),
                          !.email_sent = EmailSent(mail)]

book_appointment(customer_id, property_id, service_type, problem_description, scheduled_datetime, technician_id, urgency) ==
    /\ Book([Call("book_appointment", Absent, "-", "-") EXCEPT
                !.request = [customer_id |-> customer_id, property_id |-> property_id,
                             service_type |-> service_type],
                !.final_datetime = scheduled_datetime,
                !.technician_id = technician_id,
                !.scheduled_dt = ParseScheduledMemo[scheduled_datetime].value],
            BookingCheck(customer_id, property_id, service_type, scheduled_datetime,
                         technician_id),
            NewWorkOrder(None, customer_id, property_id, service_type,
                         problem_description, scheduled_datetime, technician_id, urgency))
    /\ UNCHANGED <<now, contexts, booked>>

\* a technician and an instant of a result of the check
Offer(technician_id, datetime_iso) ==
    [technician_id |-> technician_id, datetime_iso |-> datetime_iso]

\* what a result of the check offers: the technicians of the exact match at
\* the requested instant, then the alternatives
Offers(result) ==
    [i \in 1..Len(result.recommended_slots) |->
        Offer(result.recommended_slots[i].technician_id,
              isoformat(result.requested_datetime))]
    \o [i \in 1..Len(result.genuine_alternatives) |->
           Offer(result.genuine_alternatives[i].technician_id,
                 result.genuine_alternatives[i].datetime_iso)]

\* the agent books one of the offers of the check it just made, for the
\* service it asked about, for the customer and the facility of the caller
book_offered(customer_id, property_id, k) ==
    /\ last.op = "check_technician_availability"
    /\ k <= Len(Offers(last))
    /\ book_appointment(customer_id, property_id, last.query.service_type,
                        "AC not cooling", Offers(last)[k].datetime_iso,
                        Offers(last)[k].technician_id, "High")

\* the checks and the bookings of their offers, on the Sunday before
OfferRows == {CrowdRows, SparseRows, OneHourRows}
OfferServiceTexts == {"AC Maintenance", "Plumbing Leak"}

OfferInit ==
    /\ AvailabilityInit
    /\ availability_slots \in OfferRows
    /\ now = Instant(Day(-1), HMS(8, 0, 0))

OfferNext ==
    \/ /\ \E service_type \in OfferServiceTexts, area_zone \in ZoneTexts,
             preferred_time \in {"11:00", "14:00"} :
              check_technician_availability(service_type, area_zone,
                                            "2025-06-02", preferred_time)
       /\ UNCHANGED in_flight
    \/ /\ \E customer_id \in Customers, property_id \in DOMAIN Facilities,
             k \in 1..(MaxRecommended + MaxAlternatives) :
              book_offered(customer_id, property_id, k)
       /\ UNCHANGED in_flight

OfferSpec == OfferInit /\ [][OfferNext]_vars

\* one conversation from the request to the booking, on the rows with the one
\* free window: the context is stored, the availability is checked, the
\* context is updated, the reply is classified and the booking is executed
ScenarioInit ==
    /\ NothingInFlight
    /\ now \in CheckTimes
    /\ availability_slots = OneHourRows
    /\ contexts = EmptyDict
    /\ work_orders = EmptyDict
    /\ last = Call("start", Absent, "-", "-")
    /\ booked = {}

ScenarioNext ==
    /\ \/ \E sid \in Sessions, req \in IsolationRequests :
              store_booking_context(sid, req)
       \/ \E preferred_date \in {"2025-06-02", "2025-06-05"},
             preferred_time \in {"14:00", "11:00"} :
              check_technician_availability("AC Maintenance", "Dubai Marina",
                                            preferred_date, preferred_time)
       \/ \E sid \in Sessions, tech \in OfferedTechnicians,
             checked \in ScenarioCheckedTexts :
              update_booking_context(sid, tech, checked)
       \/ \E sid \in Sessions, pref \in ScenarioPreferredTexts :
              update_preferred_date(sid, pref, pref)
       \/ \E msg \in ScenarioMessages : detect_booking_confirmation(msg)
       \/ \E sid \in Sessions, confirmed \in ScenarioConfirmedTexts,
             msg \in ScenarioMessages :
              execute_booking_from_context(sid, confirmed, msg)
    /\ UNCHANGED in_flight
ScenarioSpec == ScenarioInit /\ [][ScenarioNext]_vars

(***************************************************************************)
(* Properties                                                              *)
(***************************************************************************)
Executed == last.op = "execute_booking_from_context"
Booked == Executed /\ last.outcome = "booking_confirmed"

\* the utterance holds a term of the confirmation lexicon
HasLexiconTerm(msg) ==
    \E term \in confirmation_keywords \cup ConfirmWords \cup AcceptPhrases \cup FinePhrases :
        Contains(Lower(msg), term)

\* the utterance holds an affirmative word as a whole word
SaysYes(msg) == SearchWords(Lower(msg), ConfirmWords)

UtteranceMemo ==
    [msg \in UserMessages |-> [lexicon |-> HasLexiconTerm(msg), yes |-> SaysYes(msg)]]

\* "YYYY-MM-DD" and "HH:MM" of a text that starts with a date and a time
DateField(text) == SubSeq(text, 1, 10)
ClockField(text) == SubSeq(text, 12, 16)

\* C1: no two work orders of the store name the same technician at the same
\* scheduled instant, whatever sequence of operations produced them.
C1_NoDoubleBooking ==
    \A a, b \in DOMAIN work_orders :
        a # b =>
            ~ /\ work_orders[a].status = "Scheduled"
              /\ work_orders[b].status = "Scheduled"
              /\ work_orders[a].assigned_technician_id = work_orders[b].assigned_technician_id
              /\ work_orders[a].scheduled_date_time = work_orders[b].scheduled_date_time

\* C2: the technician a successful execute commits on the work order is the
\* technician the last update recorded in the context as the offered one.
C2_CommittedTechnicianWasOffered ==
    Booked =>
        /\ last.context.preferred_technician_id # Absent
        /\ work_orders[last.work_order_id].assigned_technician_id
               = last.context.preferred_technician_id

\* C3: an execute on a session that was booked, with no store_booking_context
\* for the session since, returns no_context and changes neither the work
\* orders nor the contexts.
C3_SecondExecuteFindsNoContext ==
    [][ (/\ last'.op = "execute_booking_from_context"
         /\ last'.session_id \in booked
         /\ UtteranceMemo[last'.user_confirmation].yes)
        => (/\ last'.outcome = "no_context"
            /\ work_orders' = work_orders
            /\ contexts' = contexts) ]_vars

\* C3 witness: a confirming execute on a booked session was answered no_context
C3_Witness ==
    /\ Executed /\ last.session_id \in booked /\ last.outcome = "no_context"
    /\ UtteranceMemo[last.user_confirmation].yes
    /\ work_orders # EmptyDict

\* C4: when the context's current preferred date differs from the original
\* requested date, the text execute hands to the commit step denotes the date
\* of the current preferred date at the time of day of the confirmed text;
\* when they are equal (or no preferred date is recorded) it is the confirmed
\* text unchanged.
C4_ReconciledInstant ==
    (/\ Executed
     /\ last.final_datetime # None
     /\ Len(last.confirmed_datetime) >= 16
     /\ fromisoformat(last.confirmed_datetime).ok)
    => IF /\ last.context.current_preferred_date # None
          /\ last.context.current_preferred_date # last.context.original_requested_date
       THEN fromisoformat(last.final_datetime)
              = fromisoformat(DateField(last.context.current_preferred_date)
                              \o "T" \o ClockField(last.confirmed_datetime))
       ELSE last.final_datetime = last.confirmed_datetime

\* C5: once update_preferred_date has recorded a date other than the original
\* request's (and no later update replaced it), a successful execute schedules
\* the work order on that date.
C5_PreferredDateIsBooked ==
    (/\ Booked
     /\ last.context.original_requested_date # None
     /\ last.context.current_preferred_date # None
     /\ last.context.current_preferred_date # last.context.last_checked_datetime
     /\ DateField(last.context.current_preferred_date)
            # DateField(last.context.original_requested_date))
    => DateIso(DateOf(work_orders[last.work_order_id].scheduled_date_time))
           = DateField(last.context.current_preferred_date)

\* the technicians the resolver returns for a service, a facility and an
\* instant, for every booking an execute can attempt
RecheckMemo ==
    [service_type \in {req.service_type : req \in Requests},
     property_id \in {req.property_id : req \in Requests},
     scheduled_dt \in {ParseScheduledMemo[text].value : text \in ScheduledTexts} |->
        LET final_check == FinalCheck(AvailabilitySlots, FindService(service_type),
                                      property_id, Parsed(scheduled_dt))
        IN  {final_check[i].technician_id : i \in 1..Len(final_check)}]

RecheckedTechnicians(call) ==
    RecheckMemo[call.context.service_type, call.context.property_id, call.scheduled_dt]

C7_NoLexiconTermNoBooking ==
    [][ (/\ last'.op = "execute_booking_from_context"
         /\ ~UtteranceMemo[last'.user_confirmation].lexicon)
        => (/\ last'.outcome = "not_confirmation"
            /\ work_orders' = work_orders
            /\ contexts' = contexts
            /\ last'.calendar = "not attempted"
            /\ last'.email = "not attempted") ]_vars

\* C8: an execute with an affirmative utterance on a session that has no
\* context returns the error no_context, creates no work order and creates no
\* context.
C8_NoContextNoBooking ==
    [][ (/\ last'.op = "execute_booking_from_context"
         /\ UtteranceMemo[last'.user_confirmation].yes
         /\ last'.session_id \notin DOMAIN contexts)
        => (/\ last'.outcome = "no_context"
            /\ last'.status = "error"
            /\ work_orders' = work_orders
            /\ contexts' = contexts) ]_vars

\* C8 witness: an affirmative execute on a session never stored
C8_Witness ==
    /\ Executed /\ last.outcome = "no_context"
    /\ UtteranceMemo[last.user_confirmation].yes
    /\ last.session_id \notin booked
    /\ contexts = EmptyDict

\* C9: an execute whose reconciled text parses is turned down for its date
\* exactly when the instant is not strictly after now or its year is neither
\* the current year nor the following one.
C9_FutureWithinHorizon ==
    (/\ Executed
     /\ last.final_datetime # None
     /\ last.outcome # "invalid_datetime")
    => ((last.outcome \in {"past", "invalid_year"})
        <=> ~ /\ last.scheduled_dt > now
              /\ YearOf(last.scheduled_dt) \in {YearOf(now), YearOf(now) + 1})

\* C10: every successful execute adds exactly one work order to the store;
\* its status is Scheduled, its scheduled instant is the instant the
\* reconciled text denotes, and its technician is the context's technician.
C10_OneWorkOrderPerBooking ==
    [][ (/\ last'.op = "execute_booking_from_context"
         /\ last'.outcome = "booking_confirmed")
        => (/\ Cardinality(DOMAIN work_orders') = Cardinality(DOMAIN work_orders) + 1
            /\ work_orders'[last'.work_order_id].status = "Scheduled"
            /\ fromisoformat(last'.final_datetime)
                   = Parsed(work_orders'[last'.work_order_id].scheduled_date_time)
            /\ (last'.context.preferred_technician_id # Absent
                => work_orders'[last'.work_order_id].assigned_technician_id
                       = last'.context.preferred_technician_id)) ]_vars

\* C11: in the result of a successful execute the work order is stored, the
\* calendar flag is true exactly when the calendar event was created, and the
\* notification flag is true only when the confirmation mail was sent.
C11_FlagsFollowSideEffects ==
    Booked =>
        /\ last.status = "success"
        /\ last.work_order_id \in DOMAIN work_orders
        /\ (last.calendar_created <=> last.calendar = "created")
        /\ (last.email_sent => last.email = "sent")

\* an update_booking_context or update_preferred_date call that found the
\* context of its session
Updated(call) ==
    /\ call.op \in {"update_booking_context", "update_preferred_date"}
    /\ call.status = "success"

\* C20: update_booking_context sets original_requested_date to the checked
\* instant only when it is still unset and always sets current_preferred_date
\* to the checked instant; no update_booking_context or update_preferred_date
\* call changes an original_requested_date that is set.
C20_OriginalRequestSetOnce ==
    [][ Updated(last') =>
          /\ last'.session_id \in DOMAIN contexts \cap DOMAIN contexts'
          /\ contexts[last'.session_id].original_requested_date # None =>
                 contexts'[last'.session_id].original_requested_date
                     = contexts[last'.session_id].original_requested_date
          /\ last'.op = "update_booking_context" =>
                 /\ contexts'[last'.session_id].current_preferred_date
                        = contexts'[last'.session_id].last_checked_datetime
                 /\ contexts[last'.session_id].original_requested_date = None =>
                        contexts'[last'.session_id].original_requested_date
                            = contexts'[last'.session_id].last_checked_datetime ]_vars

\* a later update_booking_context with another checked instant has left the
\* original request as it was
C20_Witness ==
    /\ last.op = "update_booking_context"
    /\ last.status = "success"
    /\ contexts[last.session_id].original_requested_date # None
    /\ contexts[last.session_id].original_requested_date
           # contexts[last.session_id].last_checked_datetime

\* the fields of a context that come from the request
RequestFields ==
    {"customer_id", "property_id", "service_type", "service_id",
     "problem_description", "area_zone", "urgency"}

\* C21: a successful update_preferred_date sets current_preferred_date to
\* the new date and leaves the original request, the recorded technician and
\* the request fields of the context as they were
C21_PreferredDateFrame ==
    [][ (last'.op = "update_preferred_date" /\ last'.status = "success") =>
            /\ last'.session_id \in DOMAIN contexts
            /\ last'.session_id \in DOMAIN contexts'
            /\ contexts'[last'.session_id].current_preferred_date
                   = last'.new_preferred_date
            /\ \A field \in RequestFields \cup {"original_requested_date",
                                                "preferred_technician_id",
                                                "preferred_technician_name",
                                                "last_checked_datetime"} :
                   contexts'[last'.session_id][field] = contexts[last'.session_id][field]
      ]_vars

C21_Witness ==
    /\ last.op = "update_preferred_date"
    /\ last.status = "success"
    /\ contexts[last.session_id].current_preferred_date = last.new_preferred_date
    /\ contexts[last.session_id].original_requested_date # None
    /\ contexts[last.session_id].original_requested_date # last.new_preferred_date
    /\ contexts[last.session_id].preferred_technician_id = "TECH002"

\* C22: contexts is keyed by session id, and store_booking_context on a
\* session that has a context replaces it: afterwards the context carries the
\* new request, no technician, no checked, original or preferred date and no
\* alternatives
C22_StoreReplaces ==
    [][ last'.op = "store_booking_context" =>
            /\ last'.session_id \in DOMAIN contexts'
            /\ DOMAIN contexts' = DOMAIN contexts \cup {last'.session_id}
            /\ \A field \in RequestFields :
                   contexts'[last'.session_id][field] = last'.request[field]
            /\ contexts'[last'.session_id].preferred_technician_id = Absent
            /\ contexts'[last'.session_id].preferred_technician_name = Absent
            /\ contexts'[last'.session_id].last_checked_datetime = None
            /\ contexts'[last'.session_id].original_requested_date = None
            /\ contexts'[last'.session_id].current_preferred_date = None
            /\ contexts'[last'.session_id].suggested_alternatives = << >>
      ]_vars

\* a store over a context that had a technician and a different request
C22_Witness ==
    /\ last.op = "store_booking_context"
    /\ last.technician_id = "TECH001"
    /\ last.request.customer_id = "CUST999"
    /\ contexts[last.session_id].customer_id = "CUST999"
    /\ contexts[last.session_id].preferred_technician_id = Absent

\* C23: a context leaves the store only by clear_booking_context for its
\* session or by an execute_booking_from_context for its session that
\* returns success; store, update, update_preferred_date, get, detect and an
\* execute that fails leave the session in the store
C23_ContextLifecycle ==
    [][ \A sid \in Sessions :
            (sid \in DOMAIN contexts /\ sid \notin DOMAIN contexts') =>
                /\ last'.session_id = sid
                /\ \/ last'.op = "clear_booking_context"
                   \/ /\ last'.op = "execute_booking_from_context"
                      /\ last'.status = "success"
      ]_vars

\* an execute that confirmed, found the context and failed in the booking:
\* the context is still there
C23_Witness ==
    /\ last.op = "execute_booking_from_context"
    /\ last.status = "error"
    /\ last.outcome # "no_context"
    /\ last.session_id \in DOMAIN contexts
    /\ contexts[last.session_id] = last.context

\* C24: a call for one session leaves the context of every other session as
\* it was: not changed, not removed, not created
C24_SessionIsolation ==
    [][ \A sid \in ConcurrentSessions \ {last'.session_id} :
            /\ (sid \in DOMAIN contexts') = (sid \in DOMAIN contexts)
            /\ sid \in DOMAIN contexts => contexts'[sid] = contexts[sid]
      ]_vars

\* session s1 was booked and cleared while s2 keeps its context
C24_Witness ==
    /\ last.op = "execute_booking_from_context"
    /\ last.status = "success"
    /\ last.session_id = "s1"
    /\ "s1" \notin DOMAIN contexts
    /\ "s2" \in DOMAIN contexts
    /\ contexts["s2"].preferred_technician_id = "TECH001"

C26_ConfidenceLevels ==
    last.op = "detect_booking_confirmation" =>
        /\ (last.detected.confidence = "high") =
               (/\ has_confirmation(last.user_confirmation)
                /\ last.detected.extracted_time # None)
        /\ (last.detected.confidence = "medium") =
               (/\ has_confirmation(last.user_confirmation)
                /\ last.detected.extracted_time = None)
        /\ (last.detected.confidence = "low") =
               ~has_confirmation(last.user_confirmation)
        /\ last.detected.is_confirmation = has_confirmation(last.user_confirmation)
        /\ last.detected.confidence \in {"high", "medium", "low"}

\* a keyword with a time, a keyword alone and a time alone
C26_Witness ==
    /\ last.op = "detect_booking_confirmation"
    /\ last.user_confirmation = "Sure, 2:30 pm"
    /\ last.detected.confidence = "high"
    /\ last.detected.extracted_time # None

ParsedText == last.op = "parse_user_datetime"

\* C27: when the text writes a date with its year and that date is before
\* today, the date parse_user_datetime returns is not before today and
\* date_adjusted is set
C27_PastDateRolledForward ==
    (/\ ParsedText
     /\ last.parsed_date.ok
     /\ last.parsed_date.literal.ok
     /\ last.parsed_date.literal.value < last.today)
    => (/\ last.parsed_date.value >= last.today
        /\ last.parsed_date.adjusted)

\* C28: parse_user_datetime returns "success" or "needs_clarification" for
\* every text, and a text without a date it recognises gets
\* "needs_clarification" with tomorrow's date as the example
C28_NeverHardFails ==
    ParsedText =>
        /\ last.status \in {"success", "needs_clarification"}
        /\ ~last.parsed_date.ok =>
               /\ last.status = "needs_clarification"
               /\ last.example = Parsed(last.today + 1)

\* C29: "next week" gives the first Monday after today, "next month" the
\* first day of the month after today's month
C29_NextWeekNextMonth ==
    /\ (ParsedText /\ last.user_input = "next week") =>
           /\ last.status = "success"
           /\ weekday(last.parsed_date.value) = 0
           /\ last.parsed_date.value > last.today
           /\ last.parsed_date.value <= last.today + 7
    /\ (ParsedText /\ last.user_input = "next month") =>
           /\ last.status = "success"
           /\ CivilFromDays(last.parsed_date.value).day = 1
           /\ last.parsed_date.value > last.today
           /\ last.parsed_date.value <= last.today + 31

(***************************************************************************)
(* Properties of the availability search                                   *)
(***************************************************************************)
CheckedAvailability == last.op = "check_technician_availability"
SearchedDirectly == last.op = "find_available_technicians"

\* the instant a candidate's own date and time texts denote
CandidateInstant(alt) == Combine(ParseDate(alt.date), ParseIsoTime(alt.time)).value

\* the exact search of the last check, on the same rows, at another instant
ExactSearchAt(instant) ==
    find_available_technicians(availability_slots,
                               ServiceTypes[last.service].required_skills,
                               last.query.area_zone, instant,
                               ServiceTypes[last.service].estimated_duration)

TechniciansOf(slots) == {slots[i].technician_id : i \in 1..Len(slots)}

Candidates == SeqToSet(last.genuine_alternatives)

\* C12: every candidate the alternative search returns passes the exact
\* search on the same rows at the candidate's own date and time, and the
\* candidate's technician is among the slots that search returns.
C12_CandidatesPassExactSearch ==
    CheckedAvailability =>
        \A alt \in Candidates :
            alt.technician_id \in TechniciansOf(ExactSearchAt(CandidateInstant(alt)))

\* six candidates were returned, one of them with two technicians free
C12_Witness ==
    /\ CheckedAvailability
    /\ Len(last.genuine_alternatives) = 6
    /\ \E alt \in Candidates : alt.available_technicians_count = 2

\* C13: no candidate of the alternative search is dated on a Friday.
C13_NoFridayCandidate ==
    CheckedAvailability =>
        \A alt \in Candidates : weekday(ParseDate(alt.date).value) # 4

\* a Thursday request on rows that have a free technician on the Friday
\* after it; the candidates returned are dated after that Friday
C13_Witness ==
    /\ CheckedAvailability
    /\ last.query.preferred_date = "2025-06-05"
    /\ \E i \in 1..Len(availability_slots) :
           DateOf(availability_slots[i].available_start_time) = D_Jun05 + 1
    /\ Candidates # {}
    /\ \A alt \in Candidates : ParseDate(alt.date).value > D_Jun05 + 1

\* C14: no two candidates of one result share a date.
C14_OneCandidatePerDay ==
    CheckedAvailability =>
        \A i, j \in 1..Len(last.genuine_alternatives) :
            i # j => last.genuine_alternatives[i].date # last.genuine_alternatives[j].date

\* the hour and the days after the request date of a candidate
CandidateHour(alt) == TimeOf(CandidateInstant(alt)) \div 3600
CandidateDaysAhead(alt) == ParseDate(alt.date).value - ParseDate(last.query.preferred_date).value

\* the probe points of the search: a day after the request date that is not
\* a Friday, at an hour of the ladder
ProbePoints ==
    {Instant(ParseDate(last.query.preferred_date).value + d, HMS(h, 0, 0)) :
        d \in {n \in 1..7 : weekday(ParseDate(last.query.preferred_date).value + n) # 4},
        h \in {9, 10, 11, 14, 15, 16, 17}}

\* C15: at most 6 candidates are returned, each dated 1 to 7 days after the
\* request date at one of the hours 9, 10, 11, 14, 15, 16, 17 on the hour, in
\* increasing chronological order; the search stops at the sixth, so a probe
\* point with availability is left out only after six earlier candidates.
C15_BoundedOrderedCandidates ==
    CheckedAvailability =>
        /\ Len(last.genuine_alternatives) <= 6
        /\ \A alt \in Candidates :
               /\ CandidateDaysAhead(alt) \in 1..7
               /\ CandidateHour(alt) \in {9, 10, 11, 14, 15, 16, 17}
               /\ CandidateInstant(alt) = Instant(ParseDate(alt.date).value,
                                                  HMS(CandidateHour(alt), 0, 0))
               /\ alt.datetime_iso = isoformat(CandidateInstant(alt))
        /\ \A i \in 1..Len(last.genuine_alternatives) - 1 :
               CandidateInstant(last.genuine_alternatives[i])
                   < CandidateInstant(last.genuine_alternatives[i + 1])
        /\ last.lists_alternatives =>
               \A point \in ProbePoints :
                   \/ Len(ExactSearchAt(point)) = 0
                   \/ point \in {CandidateInstant(alt) : alt \in Candidates}
                   \/ /\ Len(last.genuine_alternatives) = 6
                      /\ \A alt \in Candidates : CandidateInstant(alt) < point

\* six candidates were returned and a later probe point with availability
\* was left out
C15_Witness ==
    /\ CheckedAvailability
    /\ Len(last.genuine_alternatives) = 6
    /\ \E point \in ProbePoints :
           /\ Len(ExactSearchAt(point)) > 0
           /\ \A alt \in Candidates : CandidateInstant(alt) < point

\* the outcomes of a request that is itself invalid
InvalidRequests ==
    {"invalid_date", "past_date", "invalid_year", "service_not_found",
     "invalid_time", "past_time"}

\* C16: a result for the exact instant lists no alternatives, alternatives
\* are listed only when the exact search at the requested instant is empty,
\* and a valid request with neither an exact match nor an alternative is
\* answered with success and an empty list of alternatives, never an error.
C16_AlternativesOnlyWithoutExactMatch ==
    CheckedAvailability =>
        /\ last.status = "error" <=> last.outcome \in InvalidRequests
        /\ last.status = "success" =>
              /\ last.exact_match <=> Len(ExactSearchAt(last.requested_datetime)) > 0
              /\ last.exact_match <=> ~last.lists_alternatives
              /\ last.exact_match => /\ last.genuine_alternatives = << >>
                                     /\ Len(last.recommended_slots) > 0
              /\ ~last.exact_match => last.recommended_slots = << >>

\* a valid request for which no probe point has availability
C16_Witness ==
    /\ CheckedAvailability
    /\ last.status = "success"
    /\ ~last.exact_match
    /\ last.lists_alternatives
    /\ last.genuine_alternatives = << >>
    /\ \A point \in ProbePoints : Len(ExactSearchAt(point)) = 0

\* one text is part of the other, whatever the case of their letters
PartOfEachOther(a, b) == Contains(Lower(a), Lower(b)) \/ Contains(Lower(b), Lower(a))

\* the matching rule for the skills and the zone of a row
SkillsAndZoneFit(row, required_skills, zone) ==
    /\ \A i \in 1..Len(required_skills) :
           \E j \in 1..Len(row.skillset) : PartOfEachOther(required_skills[i], row.skillset[j])
    /\ PartOfEachOther(zone, row.zone)

\* the window of a row holds the whole visit
Covers(row, start, duration_minutes) ==
    /\ row.available_start_time <= start
    /\ row.available_end_time >= start + duration_minutes * 60

\* the skill and zone rule, evaluated once for the rows and the searches
SkillsAndZoneFitMemo ==
    [rows \in SlotData, required_skills \in SkillSamples, zone \in ZoneSamples |->
        {i \in 1..Len(rows) : SkillsAndZoneFit(rows[i], required_skills, zone)}]

\* the rows of the data the last search had to return
FittingRows ==
    {i \in SkillsAndZoneFitMemo[availability_slots, last.search.required_skills,
                                last.search.zone] :
        Covers(availability_slots[i], last.search.requested_datetime,
               last.search.duration_minutes)}

FoundRows == SeqToSet(last.available_slots)

\* a row with that single skill fits the search by zone and time and is returned
FoundWithSkill(slot_skill) ==
    \E i \in 1..Len(availability_slots) :
        /\ availability_slots[i].skillset = <<slot_skill>>
        /\ availability_slots[i] \in FoundRows

\* a row with that single skill fits the search by zone and time
FitsButForSkill(slot_skill) ==
    \E i \in 1..Len(availability_slots) :
        /\ availability_slots[i].skillset = <<slot_skill>>
        /\ PartOfEachOther(last.search.zone, availability_slots[i].zone)
        /\ Covers(availability_slots[i], last.search.requested_datetime,
                  last.search.duration_minutes)

\* C17 (as the source behaves): a row is returned iff each required skill is
\* part of one of the row's skills or has one of them as a part, the same
\* holds between the zones, letter case ignored, and the window holds the
\* visit; requirement "HVAC" matches slot skill "ac", which is part of
\* "hvac", and requirement "AC Maintenance" matches slot skill "Maintenance".
C17_SymmetricSubstringMatch ==
    SearchedDirectly =>
        /\ FoundRows = {availability_slots[i] : i \in FittingRows}
        /\ last.search.required_skills = <<"HVAC">> /\ FitsButForSkill("ac")
              => FoundWithSkill("ac")
        /\ last.search.required_skills = <<"AC Maintenance">> /\ FitsButForSkill("Maintenance")
              => FoundWithSkill("Maintenance")

\* C17 (as stated): the same rule, but requirement "HVAC" against slot skill
\* "ac" is no match.
C17_HvacDoesNotMatchAc ==
    SearchedDirectly =>
        /\ FoundRows = {availability_slots[i] : i \in FittingRows}
        /\ last.search.required_skills = <<"HVAC">> => ~FoundWithSkill("ac")
        /\ last.search.required_skills = <<"AC Maintenance">> /\ FitsButForSkill("Maintenance")
              => FoundWithSkill("Maintenance")

\* a search for "HVAC" returned the row whose only skill is "ac", and in a
\* zone written in another case
C17_Witness ==
    /\ SearchedDirectly
    /\ last.search.required_skills = <<"HVAC">>
    /\ last.search.zone = "marina"
    /\ FoundWithSkill("ac")

\* two rows of one technician, the second starting when the first ends, that
\* hold the visit only together
Stitched(first, second, start, duration_minutes) ==
    /\ first.technician_id = second.technician_id
    /\ first.available_end_time = second.available_start_time
    /\ first.available_start_time <= start
    /\ second.available_end_time >= start + duration_minutes * 60
    /\ ~Covers(first, start, duration_minutes)
    /\ ~Covers(second, start, duration_minutes)

\* C18: every slot the exact search returns is a row whose own window starts
\* at or before the requested start and ends at or after the requested start
\* plus the duration; two adjacent windows of one technician that hold the
\* visit only together are not returned.
C18_NoStitching ==
    SearchedDirectly =>
        /\ \A slot \in FoundRows :
               /\ slot \in SeqToSet(availability_slots)
               /\ Covers(slot, last.search.requested_datetime, last.search.duration_minutes)
        /\ \A first, second \in SeqToSet(availability_slots) :
               Stitched(first, second, last.search.requested_datetime,
                        last.search.duration_minutes)
                   => first \notin FoundRows /\ second \notin FoundRows

\* a visit that two adjacent windows of a technician with the skills, in the
\* zone, hold only together
C18_Witness ==
    /\ SearchedDirectly
    /\ \E i, j \in SkillsAndZoneFitMemo[availability_slots, last.search.required_skills,
                                        last.search.zone] :
           Stitched(availability_slots[i], availability_slots[j],
                    last.search.requested_datetime, last.search.duration_minutes)
    /\ \A slot \in FoundRows :
           Covers(slot, last.search.requested_datetime, last.search.duration_minutes)

\* the k-th smallest member of a set of indices
Nth(indices, k) == CHOOSE i \in indices : Cardinality({j \in indices : j <= i}) = k

\* the first slots of a list, at most five
FirstFive(slots) == [k \in 1..(IF Len(slots) < 5 THEN Len(slots) ELSE 5) |-> slots[k]]

\* C19: the exact search returns the rows that fit the requested instant, each
\* once, in the order of the data; the slots recommended for an exact match
\* are the first five of them, or all when fewer, in that order.
C19_DataOrderFirstFive ==
    /\ SearchedDirectly =>
           /\ Len(last.available_slots) = Cardinality(FittingRows)
           /\ \A k \in 1..Len(last.available_slots) :
                  last.available_slots[k] = availability_slots[Nth(FittingRows, k)]
    /\ CheckedAvailability /\ last.exact_match =>
           /\ last.available_slots_count = Len(ExactSearchAt(last.requested_datetime))
           /\ last.recommended_slots = FirstFive(ExactSearchAt(last.requested_datetime))

\* more than five rows fit the requested instant, rows that do not fit lie
\* between them, and five slots are recommended
C19_Witness ==
    /\ CheckedAvailability
    /\ last.exact_match
    /\ last.available_slots_count > 5
    /\ Len(last.recommended_slots) = 5
    /\ last.recommended_slots[2] # availability_slots[2]

\* the one window of the rows: its technician and its start
OfferedWindow == OneHourRows[1]

\* C30: on rows with one window, on a later day at one hour of the ladder,
\* a check for the Monday reports no exact match and exactly one
\* alternative, the day and hour of the window with its technician; and an
\* execute that finds that technician and that date in the context, is
\* handed the alternative's instant and the reply "that works", returns
\* success with a Scheduled work order at that instant for that technician
C30_EndToEnd ==
    /\ (/\ last.op = "check_technician_availability"
        /\ last.query.preferred_date = "2025-06-02"
        /\ last.status = "success")
       => /\ ~last.exact_match
          /\ Len(last.genuine_alternatives) = 1
          /\ last.genuine_alternatives[1].date
                 = DateIso(DateOf(OfferedWindow.available_start_time))
          /\ last.genuine_alternatives[1].time = "10:00"
          /\ last.genuine_alternatives[1].datetime_iso
                 = isoformat(OfferedWindow.available_start_time)
          /\ last.genuine_alternatives[1].technician_id = OfferedWindow.technician_id
    /\ (/\ Executed
        /\ last.user_confirmation = "that works"
        /\ last.confirmed_datetime = isoformat(OfferedWindow.available_start_time)
        /\ last.context.preferred_technician_id = OfferedWindow.technician_id
        /\ last.context.current_preferred_date
               \in {DateIso(DateOf(OfferedWindow.available_start_time)),
                    isoformat(OfferedWindow.available_start_time)})
       => /\ last.status = "success"
          /\ last.work_order_id \in DOMAIN work_orders
          /\ work_orders[last.work_order_id].status = "Scheduled"
          /\ work_orders[last.work_order_id].scheduled_date_time
                 = OfferedWindow.available_start_time
          /\ work_orders[last.work_order_id].assigned_technician_id
                 = OfferedWindow.technician_id

\* the conversation asked for the Monday, took the Tuesday and was booked
C30_Witness ==
    /\ Booked
    /\ last.user_confirmation = "that works"
    /\ last.context.original_requested_date = "2025-06-02T14:00:00"
    /\ last.context.current_preferred_date = "2025-06-03"
    /\ last.context.preferred_technician_id = "TECH001"
    /\ work_orders[last.work_order_id].scheduled_date_time
           = Instant(Day(1), HMS(10, 0, 0))
    /\ work_orders[last.work_order_id].status = "Scheduled"

(***************************************************************************)
(* The commit step by step                                                 *)
(***************************************************************************)
\* the kinds of the side effects of a commit, in the order of the code
CommitOrder == <<"work_order", "calendar", "email">>

\* the log holds the first n kinds of the order, each once
InCommitOrder(log) ==
    /\ Len(log) <= Len(CommitOrder)
    /\ \A i \in 1..Len(log) : log[i].kind = CommitOrder[i]

\* C31: in every execute the side effects come in the order work order,
\* calendar, notification, each at most once; a calendar or notification
\* attempt belongs to a call whose work order is in the store; a call that
\* has stored no work order has dispatched nothing; and a call that returned
\* after storing a work order attempted both the calendar and the
\* notification, whatever the calendar call answered
C31_CommitOrdering ==
    \A t \in Tasks :
        /\ InCommitOrder(effects[t])
        /\ Len(effects[t]) >= 1 =>
               /\ effects[t][1].outcome \in DOMAIN work_orders
               /\ tasks[t].call.work_order_id = effects[t][1].outcome
        /\ tasks[t].pc \in {"idle", "booking", "checked"} => effects[t] = << >>
        /\ tasks[t].pc = "persisted" => Len(effects[t]) = 1
        /\ tasks[t].pc = "calendar_done" => Len(effects[t]) = 2
        /\ (tasks[t].pc = "returned" /\ tasks[t].call.work_order_id = Absent)
               => effects[t] = << >>
        /\ (tasks[t].pc = "returned" /\ tasks[t].call.work_order_id # Absent)
               => Len(effects[t]) = 3

\* a call returned success although its calendar call failed: the work
\* order, the failed calendar attempt and the mail are in its log in that order
C31_Witness ==
    \E t \in Tasks :
        /\ tasks[t].pc = "returned"
        /\ tasks[t].call.status = "success"
        /\ effects[t][2] = Effect("calendar", "failed")
        /\ effects[t][3].kind = "email"
        /\ \E u \in Tasks : tasks[u].pc = "returned" /\ tasks[u].call.status = "error"
                            /\ effects[u] = << >>

(***************************************************************************)
(* Failure atomicity of execute                                            *)
(***************************************************************************)
\* what execute answers when it passed the confirmation check and booked nothing
ExecuteFailures ==
    {"no_context", "invalid_datetime", "past", "invalid_year", "service_not_found",
     "customer_not_found", "facility_not_found", "technician_not_found",
     "slot_no_longer_available"}

\* C32: an execute that passes the confirmation check and does not return
\* success answers one of the failures (no context, unparseable text, past
\* or out-of-horizon instant, unknown service, customer, facility or
\* technician, slot no longer available) and leaves the context store, the
\* work-order store and the availability rows exactly as they were
C32_FailureAtomicity ==
    [][ (/\ last'.op = "execute_booking_from_context"
         /\ last'.outcome \notin {"not_confirmation", "booking_confirmed"})
        => /\ last'.status = "error"
           /\ last'.outcome \in ExecuteFailures
           /\ last'.session_id \in DOMAIN contexts' <=> last'.outcome # "no_context"
           /\ contexts' = contexts
           /\ work_orders' = work_orders
           /\ availability_slots' = availability_slots
      ]_vars

\* one conversation was booked; the execute of the other one was then
\* rejected because the technician of its context is not free at the
\* instant: both stores are as the call found them
C32_Witness ==
    /\ Executed
    /\ last.outcome = "slot_no_longer_available"
    /\ last.session_id \in DOMAIN contexts
    /\ contexts[last.session_id] = last.context
    /\ booked # {}
    /\ Cardinality(DOMAIN work_orders) = 1

(***************************************************************************)
(* Two execute calls of one session                                        *)
(***************************************************************************)
\* the call was made with a confirming utterance
Confirming(t) ==
    /\ tasks[t].pc # "idle"
    /\ tasks[t].call.outcome # "not_confirmation"

\* the call has stored a work order
Persisted(t) == Len(effects[t]) >= 1

\* the call has returned with the status
ReturnedWith(t, status) ==
    tasks[t].pc = "returned" /\ tasks[t].call.status = status

DetectedMessage == last.op = "detect_booking_confirmation"

\* C34: for every utterance the confirmation check of the executor lets the
\* utterance through exactly when the detector answers is_confirmation = true
C34_ClassifiersAgree ==
    DetectedMessage =>
        (is_confirmation(last.user_confirmation) <=> last.detected.is_confirmation)

(***************************************************************************)
(* The offer and the commit                                                *)
(***************************************************************************)
\* book_appointment was called with an offer of the check
BookedOffer == last.op = "book_appointment"

\* C35: on unchanged rows, a booking of a technician and an instant that the
\* availability check offered, for the service text of the check at the
\* facility of the customer, resolves the service, reaches the final check
\* and passes it: it is not rejected as an unknown service and not because
\* the technician is no longer available
C35_OfferPassesRecheck ==
    BookedOffer =>
        last.outcome \notin {"service_not_found", "slot_no_longer_available"}

(***************************************************************************)
(* The "N pm" normalization of the detector                                *)
(***************************************************************************)
\* the "N pm" pattern matches in the lowered, stripped message
PmNormalized(user_message) ==
    ClockMatches(Lower(Strip(user_message)), {0}, {0}, PmOrder) # {}

\* "12:00" .. "23:00"
AfternoonHours == {Format02d(h) \o ":00" : h \in 12..23}

\* C36: whenever the "N pm" normalization produces the extracted time, the
\* time is HH:00 with HH an hour of 12..23, for every message, those where
\* the digits before "pm" are minutes included
C36_PmHourValid ==
    (DetectedMessage /\ PmNormalized(last.user_confirmation)) =>
        last.detected.extracted_time \in AfternoonHours

(***************************************************************************)
(* The operations on a session without a context                           *)
(***************************************************************************)
\* the operation that just ran was called for a session that had no context
MissedContext ==
    /\ last'.op \in {"update_booking_context", "update_preferred_date",
                     "get_booking_context", "clear_booking_context",
                     "execute_booking_from_context"}
    /\ last'.session_id \notin DOMAIN contexts

\* C37: only store_booking_context adds a session to the context store:
\* every other operation leaves a session that has no context without one;
\* called for such a session, update_booking_context, update_preferred_date
\* and get_booking_context report an error, clear_booking_context reports
\* success and the store stays as it was
C37_OnlyStoreAddsSession ==
    [][/\ (last'.op # "store_booking_context") =>
              (DOMAIN contexts' \subseteq DOMAIN contexts)
       /\ MissedContext =>
              /\ contexts' = contexts
              /\ (last'.op \in {"update_booking_context", "update_preferred_date",
                                "get_booking_context"}) =>
                     (last'.status = "error" /\ last'.outcome = "no_context")
              /\ (last'.op = "clear_booking_context") => last'.status = "success"
      ]_vars

\* an update was refused for a session that has no context, and a work order
\* of an earlier booking of the session is stored
C37_Witness ==
    /\ last.op = "update_preferred_date"
    /\ last.outcome = "no_context"
    /\ last.session_id \notin DOMAIN contexts
    /\ DOMAIN work_orders # {}

(***************************************************************************)
(* websocket/streaming.py: handle_websocket_connection, its two tasks and  *)
(* _cleanup_session                                                        *)
(***************************************************************************)
\* the messages one connection carries in each direction
MaxMessages == 1

\* what a step on one connection leaves alone
OneConnection(c, connection) ==
    /\ connections' = [connections EXCEPT ![c] = connection]
    /\ UNCHANGED <<now, contexts, work_orders, last, booked, availability_slots,
                   tasks, effects>>

\* a client opens /ws/{session_id}: await websocket.accept()
accept(c) ==
    /\ connections[c].handler \in {"idle", "cleaned", "raised"}
    /\ OneConnection(c, [NotConnected EXCEPT !.handler = "accepted",
                                             !.websocket = "open"])
    /\ UNCHANGED active_sessions

\* start_agent_session returned: the session is stored and the two tasks are
\* created, then the handler waits; or it raised: the except clause prints,
\* and the finally clause reads live_request_queue, which was never bound
start_agent_session(c, started) ==
    /\ connections[c].handler = "accepted"
    /\ IF started
       THEN /\ active_sessions' = active_sessions \cup {c}
            /\ OneConnection(c, [connections[c] EXCEPT
                                    !.handler = "waiting",
                                    !.live_request_queue = "open",
                                    !.agent_to_client = "running",
                                    !.client_to_agent = "running"])
       ELSE /\ UNCHANGED active_sessions
            /\ OneConnection(c, [connections[c] EXCEPT !.handler = "raised",
                                                       !.websocket = "closed"])

\* the client sends a frame: receive_text returns it; a text/plain or
\* audio/pcm message goes into the queue, anything json.loads or the two
\* subscripts raise on ends the task in its except clause
client_message(c, well_formed) ==
    /\ connections[c].websocket = "open"
    /\ connections[c].client_to_agent = "running"
    /\ connections[c].requests < MaxMessages
    /\ OneConnection(c, IF well_formed
                        THEN [connections[c] EXCEPT !.requests = @ + 1]
                        ELSE [connections[c] EXCEPT !.client_to_agent = "done"])
    /\ UNCHANGED active_sessions

\* the client goes away
client_disconnect(c) ==
    /\ connections[c].websocket = "open"
    /\ OneConnection(c, [connections[c] EXCEPT !.websocket = "closed"])
    /\ UNCHANGED active_sessions

\* receive_text on the closed socket raises WebSocketDisconnect, which
\* _client_to_agent_messaging catches: the task is done, without an exception
receive_disconnect(c) ==
    /\ connections[c].websocket = "closed"
    /\ connections[c].client_to_agent = "running"
    /\ OneConnection(c, [connections[c] EXCEPT !.client_to_agent = "done"])
    /\ UNCHANGED active_sessions

\* live_events yields an event with something to send: send_text passes it
\* on, or raises on the closed socket, which _agent_to_client_messaging
\* catches: the task is done, without an exception
agent_event(c) ==
    /\ connections[c].agent_to_client = "running"
    /\ \/ connections[c].websocket = "closed"
       \/ connections[c].messages < MaxMessages
    /\ OneConnection(c, IF connections[c].websocket = "open"
                        THEN [connections[c] EXCEPT !.messages = @ + 1]
                        ELSE [connections[c] EXCEPT !.agent_to_client = "done"])
    /\ UNCHANGED active_sessions

\* live_events ends or raises: the task is done, without an exception
live_events_end(c) ==
    /\ connections[c].agent_to_client = "running"
    /\ OneConnection(c, [connections[c] EXCEPT !.agent_to_client = "done"])
    /\ UNCHANGED active_sessions

\* asyncio.wait(tasks, return_when=FIRST_EXCEPTION) returns: a task raised,
\* or all the tasks are done
WaitReturns(agent_to_client, client_to_agent) ==
    \/ "raised" \in {agent_to_client, client_to_agent}
    \/ {agent_to_client, client_to_agent} \subseteq {"done", "raised"}

\* the handler wakes up and runs _cleanup_session in its finally clause: the
\* queue is closed, the session is removed; the handler returns and the server
\* closes the socket
_cleanup_session(c) ==
    /\ connections[c].handler = "waiting"
    /\ WaitReturns(connections[c].agent_to_client, connections[c].client_to_agent)
    /\ active_sessions' = active_sessions \ {c}
    /\ OneConnection(c, [connections[c] EXCEPT !.handler = "cleaned",
                                               !.live_request_queue = "closed",
                                               !.websocket = "closed"])

\* the steps the event loop takes by itself once they can be taken
Scheduled(c) ==
    \/ \E started \in BOOLEAN : start_agent_session(c, started)
    \/ receive_disconnect(c)
    \/ _cleanup_session(c)

StreamingNext ==
    \E c \in SocketSessions :
        \/ accept(c)
        \/ \E started \in BOOLEAN : start_agent_session(c, started)
        \/ \E well_formed \in BOOLEAN : client_message(c, well_formed)
        \/ client_disconnect(c)
        \/ receive_disconnect(c)
        \/ agent_event(c)
        \/ live_events_end(c)
        \/ _cleanup_session(c)

\* the clients and the agent's stream act when they like; the event loop
\* runs every coroutine that is ready
StreamingSpec ==
    /\ Init
    /\ [][StreamingNext]_vars
    /\ \A c \in SocketSessions : WF_vars(Scheduled(c))

\* one of the two tasks of the connection is done while the handler waits
TaskFinished(c) ==
    /\ connections[c].handler = "waiting"
    /\ "done" \in {connections[c].agent_to_client, connections[c].client_to_agent}

\* the queue of the connection is closed and its session is removed
CleanedUp(c) ==
    /\ connections[c].handler = "cleaned"
    /\ connections[c].live_request_queue = "closed"
    /\ c \notin active_sessions

\* C38: when either task of a connection finishes, the handler stops
\* waiting, closes the live request queue and removes the session from
\* active_sessions
C38_CleanupWhenEitherTaskEnds ==
    \A c \in SocketSessions : TaskFinished(c) ~> CleanedUp(c)

(***************************************************************************)
(* tools/work_order.py: update_work_order_status and get_work_order_status *)
(***************************************************************************)
\* new_status and notes arguments of update_work_order_status
StatusTexts == {"Completed", "completed", "In Progress", "Scheduled", "Cancelled"}
NotesTexts == {None, "", "leak fixed"}

\* what update_work_order_status assigns to the work order: the completion
\* time and notes when the new status reads "completed", nothing else
WithCompletion(work_order, new_status, notes) ==
    [work_order EXCEPT
        !.completion_date_time =
            IF Lower(new_status) = "completed" THEN current_time ELSE @,
        !.completion_notes =
            IF Lower(new_status) = "completed" /\ notes \notin {None, ""}
            THEN notes ELSE @]

update_work_order_status(work_order_id, new_status, notes, notify_customer) ==
    LET call == [Call("update_work_order_status", Absent, "-", "-")
                    EXCEPT !.work_order_id = work_order_id,
                           !.new_status = new_status]
    IN
    /\ IF work_order_id \notin DOMAIN work_orders
       THEN /\ last' = [call EXCEPT !.status = "error",
                                    !.outcome = "work_order_not_found"]
            /\ UNCHANGED work_orders
       ELSE /\ work_orders' =
                   [work_orders EXCEPT ![work_order_id] =
                       WithCompletion(@, new_status, notes)]
            /\ last' = [call EXCEPT
                           !.status = "success",
                           !.outcome = "status_updated",
                           !.old_status = work_orders[work_order_id].status,
                           !.email =
                               IF /\ notify_customer
                                  /\ work_orders[work_order_id].customer_id \in Customers
                               THEN "sent" ELSE "not attempted"]
    /\ UNCHANGED <<now, contexts, booked, availability_slots>>

get_work_order_status(work_order_id) ==
    LET call == [Call("get_work_order_status", Absent, "-", "-")
                    EXCEPT !.work_order_id = work_order_id]
    IN
    /\ last' = IF work_order_id \notin DOMAIN work_orders
               THEN [call EXCEPT !.status = "error",
                                 !.outcome = "work_order_not_found"]
               ELSE [call EXCEPT !.status = "success",
                                 !.outcome = "work_order_found",
                                 !.current_status = work_orders[work_order_id].status]
    /\ UNCHANGED <<now, contexts, work_orders, booked, availability_slots>>

\* bookings of one conversation, and the two status tools called with the ids
\* of the work orders and with an id that is not stored
StatusWorkOrderIds == WorkOrderIds \cup {"WO_missing"}

StatusNext ==
    /\ \/ \E sid \in Sessions, req \in IsolationRequests :
              store_booking_context(sid, req)
       \/ \E sid \in Sessions, tech \in IsolationTechnicians,
             checked \in IsolationCheckedTexts :
              update_booking_context(sid, tech, checked)
       \/ \E sid \in Sessions, confirmed \in IsolationConfirmedTexts,
             msg \in IsolationMessages :
              execute_booking_from_context(sid, confirmed, msg)
       \/ \E work_order_id \in StatusWorkOrderIds, new_status \in StatusTexts,
             notes \in NotesTexts, notify_customer \in BOOLEAN :
              update_work_order_status(work_order_id, new_status, notes,
                                       notify_customer)
       \/ \E work_order_id \in StatusWorkOrderIds :
              get_work_order_status(work_order_id)
    /\ UNCHANGED in_flight

StatusSpec == Init /\ [][StatusNext]_vars

\* update_work_order_status just returned success
StatusUpdated ==
    /\ last.op = "update_work_order_status"
    /\ last.status = "success"

\* C39: after update_work_order_status returned success for a stored work
\* order, the status of the stored work order is the new status, and a
\* get_work_order_status of that work order that follows reports the new
\* status as the current status
C39_StatusStored ==
    [][StatusUpdated =>
          /\ work_orders[last.work_order_id].status = last.new_status
          /\ (/\ last'.op = "get_work_order_status"
              /\ last'.work_order_id = last.work_order_id) =>
                 last'.current_status = last.new_status
      ]_vars

====
